---- MODULE Spec2Model ----
(***************************************************************************)
(* Credential reconciliation controller of consul-ecs.                     *)
(*                                                                         *)
(* The control plane (Consul ACL tokens), the secret store (AWS Secrets    *)
(* Manager) and the cluster inventory (running ECS tasks) are the external *)
(* state; one reconciliation pass at a time runs over them.  Every remote  *)
(* call of TaskFamily.Upsert, TaskFamily.updateServiceToken and            *)
(* TaskDefinitionLister.DeleteTokenInfo is one step, so that the states    *)
(* between two calls of one handler are states of the model.               *)
(***************************************************************************)
EXTENDS Integers, Sequences, FiniteSets, TLC

\* Number of credentials the control plane issues before TokenCreate only fails.
MaxTokens == 3

\* The workload families of the cluster.
Families == {"web", "db"}

\* TaskDefinitionLister.SecretPrefix / TaskFamily.SecretPrefix.
SecretPrefix == "pfx"

VARIABLES
    tasks,        \* inventory: families with a running mesh-tagged task
    live,         \* control plane: the ACL tokens that exist
    nextId,       \* control plane: number of the next token it issues
    secrets,      \* secret store: secret name -> JSON document
    pc,           \* position of the controller
    want,         \* result of List in this pass
    have,         \* result of TokenList in this pass
    cur,          \* family being converged
    currSecretValue, \* Upsert: <<>> (nil) or <<document read from the secret store>>
    currSecret,   \* Upsert: the unmarshalled secret
    currToken,    \* Upsert: <<>> (nil) or <<token>>
    err,          \* Upsert: error of the TokenRead call, <<>> is nil
    serviceToken, \* updateServiceToken: <<>> or <<created token>>
    tokens,       \* DeleteTokenInfo: tokens not yet iterated
    ret,          \* this pass: family -> error returned by its convergence
    calls,        \* this pass: family -> number of calls made for it
    passErr,      \* what the last finished pass returned
    partial,      \* families whose latest convergence created a token and failed to store it
    fixed,        \* the last pass completed without error and the inventory is as it was
    \* TaskDefinitionLister.List and TaskDefinitionLister.TokenList, call by call
    lpc,          \* position of the listing
    cluster,      \* inventory: the tasks of the cluster in the order ECS lists them
    acl,          \* control plane: the tokens in the order ACL().TokenList lists them
    offset,       \* number of tasks ListTasks has returned so far
    requests,     \* number of ListTasks calls made
    nextToken,    \* List: <<>> (nil) or <<cursor>>
    taskListOutput, \* List: the page ListTasks returned last
    taskFamilies, \* List: families already turned into a resource
    resources,    \* List: the resources appended so far
    tokenList,    \* TokenList: entries of the token list not yet read
    tokensByFamily, \* TokenList: its map tokens
    lret,         \* <<>> or <<what the listing returned>>
    \* mesh-init: Command.Run and Command.realRun, call by call
    rpc,          \* position of the command
    args,         \* arguments of Run
    config,       \* what config.FromEnv finds
    watcher,      \* the discovery watcher: "none", "running", "stopped"
    ctx,          \* the context of realRun: "none", "active", "cancelled"
    defers,       \* deferred calls of realRun, the one to run first at the head
    steps,        \* steps of realRun that have completed, in order
    attempts,     \* number of calls of each registration
    retryLog,     \* what retryLogger has logged
    catalog,      \* registrations the Consul catalog has accepted
    files,        \* files written to the shared volume
    rerr,         \* error realRun returns, <<>> is nil
    serviceRegistration, \* realRun: <<>> (nil) or <<registration of the service>>
    proxyRegistration,   \* realRun: <<>> (nil) or <<registration of the proxy or gateway>>
    ui,           \* messages Run has printed with UI.Error or log.Error
    exitCode,     \* <<>> or <<what Run returned>>
    euid,         \* user the command runs as: "root" or "user"
    runs,         \* number of times Run was started in this instance
    rpcCACertFile, \* <<>> or <<the path writeRPCCACertToSharedVolume returned>>
    \* construction of the registrations, as functions of their inputs
    taskMeta,     \* the ECS task metadata
    awsRegion,    \* what awsutil.GetAWSRegion answers
    checkArgs,    \* arguments of constructChecks
    checkRet,     \* <<>> or <<what constructChecks returned>>
    \* Schema.EnumStr of the documentation generator
    schema,       \* <<>> or the Schema EnumStr is called on
    enumStr       \* <<>> or <<what EnumStr returned>>

ctlVars == <<tasks, live, nextId, secrets, pc, want, have, cur, currSecretValue,
             currSecret, currToken, err, serviceToken, tokens, ret, calls, passErr, partial, fixed>>

listVars == <<lpc, cluster, acl, offset, requests, nextToken, taskListOutput, taskFamilies,
              resources, tokenList, tokensByFamily, lret>>

runVars == <<rpc, args, config, watcher, ctx, defers, steps, attempts, retryLog,
             catalog, files, rerr, serviceRegistration, proxyRegistration, ui, exitCode,
             euid, runs, rpcCACertFile>>

buildVars == <<taskMeta, awsRegion, checkArgs, checkRet, schema, enumStr>>

vars == <<ctlVars, listVars, runVars, buildVars>>

env    == <<tasks, live, nextId, secrets>>
locals == <<currSecretValue, currSecret, currToken, err, serviceToken, tokens>>

----------------------------------------------------------------------------
(* Errors are sequences of words; nil is the empty sequence.               *)

nil == <<>>

\* strings.Contains on word sequences.
Contains(s, sub) ==
    \E i \in 0..(Len(s) - Len(sub)) : SubSeq(s, i + 1, i + Len(sub)) = sub

ACLNotFound      == <<"Unexpected response code:", "403", "(ACL not found)">>
PermissionDenied == <<"Unexpected response code:", "403", "(Permission denied)">>
ServerError      == <<"Unexpected response code:", "500", "(rpc error)">>

\* Errors of the secret store.
ResourceNotFound     == <<"ResourceNotFoundException">>
InternalServiceError == <<"InternalServiceError">>

isACLNotFoundError_Any403(e) ==
    e # nil /\ Contains(e, <<"Unexpected response code:", "403">>)

isACLNotFoundError_404(e) ==
    e # nil /\ Contains(e, <<"Unexpected response code:", "404">>)

isACLNotFoundError(e) ==
    e # nil /\ Contains(e, <<"Unexpected response code:", "403", "(ACL not found)">>)

\* fmt.Errorf("<msg>: %w", err)
Wrap(msg, e) == <<msg>> \o e

----------------------------------------------------------------------------
(* Secret documents.                                                       *)

secretName_PrefixOnly(prefix, family) == prefix

secretName(prefix, family) == prefix \o "-" \o family

\* The JSON document {}.
EmptyDoc == <<>>

\* json.Unmarshal into tokenSecretJSON: missing keys leave the zero value.
tokenSecretJSON(doc) ==
    [AccessorID |-> IF "accessor_id" \in DOMAIN doc THEN doc["accessor_id"] ELSE "",
     Token      |-> IF "token" \in DOMAIN doc THEN doc["token"] ELSE ""]

\* json.Marshal(tokenSecretJSON{...}): both keys are always written.
Marshal(s) == ("accessor_id" :> s.AccessorID) @@ ("token" :> s.Token)

ZeroSecret == [AccessorID |-> "", Token |-> ""]

----------------------------------------------------------------------------
(* Control plane.                                                          *)

AccessorOf(n) == "acc" \o ToString(n)
SecretOf(n)   == "sec" \o ToString(n)

\* Tokens that exist before the controller runs and are not its own.
ForeignTokens ==
    { [AccessorID |-> "ext0", SecretID |-> "xsec0", ServiceIdentities |-> <<>>],
      [AccessorID |-> "ext2", SecretID |-> "xsec2", ServiceIdentities |-> <<"web", "db">>] }

\* Accessors the control plane has issued on the controller's request.
Issued == { AccessorOf(n) : n \in 1..(nextId - 1) }

LiveIDs == { t.AccessorID : t \in live }

\* Accessors of tokens the controller has deleted.
DeletedIDs == Issued \ LiveIDs

\* Controller-owned live tokens of a family.
Owned(f) == { t \in live : t.ServiceIdentities = <<f>> }

----------------------------------------------------------------------------
ZeroCalls == [read |-> 0, create |-> 0, delete |-> 0, write |-> 0]

\* No listing is stepped through.
ListOff ==
    /\ lpc = "off"
    /\ cluster = <<>>
    /\ acl = <<>>
    /\ offset = 0
    /\ requests = 0
    /\ nextToken = <<>>
    /\ taskListOutput = <<>>
    /\ taskFamilies = {}
    /\ resources = <<>>
    /\ tokenList = <<>>
    /\ tokensByFamily = <<>>
    /\ lret = <<>>

\* No mesh-init command runs.
RunOff ==
    /\ rpc = "off"
    /\ args = <<>>
    /\ config = <<>>
    /\ watcher = "none"
    /\ ctx = "none"
    /\ defers = <<>>
    /\ steps = <<>>
    /\ attempts = <<>>
    /\ retryLog = <<>>
    /\ catalog = <<>>
    /\ files = <<>>
    /\ rerr = <<>>
    /\ serviceRegistration = <<>>
    /\ proxyRegistration = <<>>
    /\ ui = <<>>
    /\ exitCode = <<>>
    /\ euid = "none"
    /\ runs = 0
    /\ rpcCACertFile = <<>>

\* No registration is constructed on its own.
BuildOff ==
    /\ taskMeta = <<>>
    /\ awsRegion = ""
    /\ checkArgs = <<>>
    /\ checkRet = <<>>
    /\ schema = <<>>
    /\ enumStr = <<>>

Init ==
    /\ ListOff
    /\ RunOff
    /\ BuildOff
    /\ tasks = {}
    /\ live \in {{}, ForeignTokens}
    /\ nextId = 1
    /\ \E S \in SUBSET Families :
          secrets = [n \in { secretName(SecretPrefix, f) : f \in S } |-> EmptyDoc]
    /\ pc = "idle"
    /\ want = {}
    /\ have = <<>>
    /\ cur = ""
    /\ currSecretValue = <<>>
    /\ currSecret = ZeroSecret
    /\ currToken = <<>>
    /\ err = nil
    /\ serviceToken = <<>>
    /\ tokens = {}
    /\ ret = <<>>
    /\ calls = [f \in Families |-> ZeroCalls]
    /\ passErr = nil
    /\ partial = {}
    /\ fixed = FALSE

----------------------------------------------------------------------------
(* The reconciliation pass: List, TokenList, Upsert for every family of    *)
(* want, DeleteTokenInfo for every family of have that is not in want,     *)
(* and one combined error at the end.                                      *)

TokenList_AnyClaim(all) ==
    LET owned == { t \in all : Len(t.ServiceIdentities) >= 1 }
    IN  [f \in { t.ServiceIdentities[1] : t \in owned } |->
            { t \in owned : t.ServiceIdentities[1] = f }]

\* TokenList: the tokens with exactly one service identity, grouped by its name.
TokenList(all) ==
    LET owned == { t \in all : Len(t.ServiceIdentities) = 1 }
    IN  [f \in { t.ServiceIdentities[1] : t \in owned } |->
            { t \in owned : t.ServiceIdentities[1] = f }]

Remaining_StopOnError(w, h, r) ==
    IF \E f \in DOMAIN r : r[f] # nil THEN {} ELSE (w \cup (DOMAIN h \ w)) \ DOMAIN r

\* The families the pass has still to converge.
Remaining(w, h, r) == (w \cup (DOMAIN h \ w)) \ DOMAIN r

\* The combined error of a pass: the non-nil errors of its families.
Combined(r) ==
    IF \E f \in DOMAIN r : r[f] # nil THEN <<"reconcile failed">> ELSE nil

\* A family's convergence returns e to the pass.
Return(f, e, isPartial) ==
    /\ ret' = (f :> e) @@ ret
    /\ partial' = IF isPartial THEN partial \cup {f} ELSE partial \ {f}
    /\ pc' = "Loop"

Reconcile_Start ==
    /\ pc = "idle"
    /\ pc' = "List"
    /\ ret' = <<>>
    /\ calls' = [f \in Families |-> ZeroCalls]
    /\ want' = {}
    /\ have' = <<>>
    /\ cur' = ""
    /\ currSecretValue' = <<>>
    /\ currSecret' = ZeroSecret
    /\ currToken' = <<>>
    /\ err' = nil
    /\ serviceToken' = <<>>
    /\ tokens' = {}
    /\ UNCHANGED <<env, passErr, partial, fixed>>
    /\ UNCHANGED <<listVars, runVars, buildVars>>

Reconcile_List ==
    /\ pc = "List"
    /\ \/ /\ want' = tasks
          /\ pc' = "TokenList"
          /\ UNCHANGED <<passErr, fixed>>
       \/ /\ pc' = "idle"
          /\ passErr' = <<"listing tasks">>
          /\ fixed' = FALSE
          /\ UNCHANGED want
    /\ UNCHANGED <<env, have, cur, locals, ret, calls, partial>>
    /\ UNCHANGED <<listVars, runVars, buildVars>>

Reconcile_TokenList ==
    /\ pc = "TokenList"
    /\ \/ /\ have' = TokenList(live)
          /\ pc' = "Loop"
          /\ UNCHANGED <<passErr, fixed>>
       \/ /\ pc' = "idle"
          /\ passErr' = <<"reading token list">>
          /\ fixed' = FALSE
          /\ UNCHANGED have
    /\ UNCHANGED <<env, want, cur, locals, ret, calls, partial>>
    /\ UNCHANGED <<listVars, runVars, buildVars>>

\* The pass takes the next family of want and calls Upsert.
Reconcile_Upsert ==
    /\ pc = "Loop"
    /\ \E f \in Remaining(want, have, ret) \cap want :
          /\ cur' = f
          /\ pc' = "GetSecretValue"
    /\ currSecretValue' = <<>>
    /\ currSecret' = ZeroSecret
    /\ currToken' = <<>>
    /\ err' = nil
    /\ serviceToken' = <<>>
    /\ UNCHANGED <<env, want, have, tokens, ret, calls, passErr, partial, fixed>>
    /\ UNCHANGED <<listVars, runVars, buildVars>>

\* With want done, the pass takes the next family of have \ want and calls DeleteTokenInfo.
Reconcile_Delete ==
    /\ pc = "Loop"
    /\ Remaining(want, have, ret) \cap want = {}
    /\ \E f \in Remaining(want, have, ret) :
          /\ cur' = f
          /\ tokens' = have[f]
          /\ pc' = "TokenDelete"
    /\ currSecretValue' = <<>>
    /\ currSecret' = ZeroSecret
    /\ currToken' = <<>>
    /\ err' = nil
    /\ serviceToken' = <<>>
    /\ UNCHANGED <<env, want, have, ret, calls, passErr, partial, fixed>>
    /\ UNCHANGED <<listVars, runVars, buildVars>>

Reconcile_End ==
    /\ pc = "Loop"
    /\ Remaining(want, have, ret) = {}
    /\ pc' = "idle"
    /\ passErr' = Combined(ret)
    /\ fixed' = (Combined(ret) = nil)
    /\ UNCHANGED <<env, want, have, cur, locals, ret, calls, partial>>
    /\ UNCHANGED <<listVars, runVars, buildVars>>

\* Tasks start and stop between two passes.
InventoryChange ==
    /\ pc = "idle"
    /\ \E T \in SUBSET Families :
          /\ T # tasks
          /\ tasks' = T
    /\ fixed' = FALSE
    /\ UNCHANGED <<live, nextId, secrets, pc, want, have, cur, locals, ret,
                   calls, passErr, partial>>
    /\ UNCHANGED <<listVars, runVars, buildVars>>

----------------------------------------------------------------------------
(* TaskFamily.Upsert                                                       *)

Bump(f, call) == [calls EXCEPT ![f][call] = @ + 1]

AfterRead_NoEarlyExit(tok, e) ==
    IF e # nil /\ ~isACLNotFoundError(e) THEN "error" ELSE "create"

AfterRead_NotFoundExists(tok, e) ==
    IF e # nil /\ ~isACLNotFoundError(e) THEN "error" ELSE "exists"

\* What Upsert does with the result of TokenRead.
AfterRead(tok, e) ==
    IF e # nil /\ ~isACLNotFoundError(e) THEN "error"
    ELSE IF tok # <<>> THEN "exists"
    ELSE "create"

\* What the secret store answers GetSecretValue with: a secret that does not
\* exist is an error; one that exists is returned unless the call fails.
GetSecretValue(name) ==
    IF name \notin DOMAIN secrets
    THEN { [err |-> ResourceNotFound, value |-> <<>>] }
    ELSE { [err |-> nil, value |-> <<secrets[name]>>],
           [err |-> InternalServiceError, value |-> <<>>] }

AfterGet_IgnoreError(e) == "unmarshal"

\* What Upsert does with the result of GetSecretValue.
AfterGet(e) == IF e # nil THEN "error" ELSE "unmarshal"

NeedsRead_Never(s) == FALSE

\* Upsert reads the token only for a secret that has an accessor.
NeedsRead(s) == s.AccessorID # ""

Upsert_GetSecretValue ==
    /\ pc = "GetSecretValue"
    /\ \E r \in GetSecretValue(secretName(SecretPrefix, cur)) :
          /\ currSecretValue' = r.value
          /\ IF AfterGet(r.err) = "error"
             THEN /\ Return(cur, Wrap("retrieving secret", r.err), FALSE)
                  /\ UNCHANGED currSecret
             ELSE /\ currSecret' = tokenSecretJSON(IF r.value = <<>> THEN EmptyDoc ELSE r.value[1])
                  /\ pc' = IF NeedsRead(currSecret') THEN "TokenRead" ELSE "TokenCreate"
                  /\ UNCHANGED <<ret, partial>>
    /\ UNCHANGED <<env, want, have, cur, currToken, err, serviceToken, tokens,
                   calls, passErr, fixed>>
    /\ UNCHANGED <<listVars, runVars, buildVars>>

Upsert_TokenRead ==
    /\ pc = "TokenRead"
    /\ \E e \in {ACLNotFound, PermissionDenied, ServerError, nil} :
          \* the control plane answers nil exactly for a token that exists and
          \* not-found only for one that does not
          /\ e = nil => currSecret.AccessorID \in LiveIDs
          /\ e = ACLNotFound => currSecret.AccessorID \notin LiveIDs
          /\ err' = e
          /\ currToken' = IF e = nil
                          THEN << CHOOSE t \in live : t.AccessorID = currSecret.AccessorID >>
                          ELSE <<>>
          /\ CASE AfterRead(currToken', e) = "error" ->
                    Return(cur, Wrap("reading existing token", e), FALSE)
               [] AfterRead(currToken', e) = "exists" ->
                    Return(cur, nil, FALSE)
               [] OTHER ->
                    /\ pc' = "TokenCreate"
                    /\ UNCHANGED <<ret, partial>>
    /\ calls' = Bump(cur, "read")
    /\ UNCHANGED <<env, want, have, cur, currSecretValue, currSecret, serviceToken,
                   tokens, passErr, fixed>>
    /\ UNCHANGED <<listVars, runVars, buildVars>>

----------------------------------------------------------------------------
(* TaskFamily.updateServiceToken                                           *)

NewToken_TwoClaims(n, serviceName) ==
    [AccessorID |-> AccessorOf(n), SecretID |-> SecretOf(n),
     ServiceIdentities |-> <<serviceName, "mesh">>]

\* The token updateServiceToken asks the control plane to create.
NewToken(n, serviceName) ==
    [AccessorID |-> AccessorOf(n), SecretID |-> SecretOf(n),
     ServiceIdentities |-> <<serviceName>>]

SecretFor_Swapped(tok) == [Token |-> tok.AccessorID, AccessorID |-> tok.SecretID]

SecretFor_KeepAccessor(tok) ==
    [Token |-> tok.SecretID,
     AccessorID |-> IF currSecret.AccessorID # "" THEN currSecret.AccessorID
                    ELSE tok.AccessorID]

\* The tokenSecretJSON updateServiceToken stores for the created token.
SecretFor(tok) == [Token |-> tok.SecretID, AccessorID |-> tok.AccessorID]

updateServiceToken_TokenCreate ==
    /\ pc = "TokenCreate"
    /\ \/ /\ nextId <= MaxTokens
          /\ live' = live \cup {NewToken(nextId, cur)}
          /\ nextId' = nextId + 1
          /\ serviceToken' = <<NewToken(nextId, cur)>>
          /\ calls' = Bump(cur, "create")
          /\ pc' = "UpdateSecret"
          /\ UNCHANGED <<ret, partial>>
       \/ /\ Return(cur, <<"updating service token", "creating envoy token">>, FALSE)
          /\ UNCHANGED <<live, nextId, serviceToken, calls>>
    /\ UNCHANGED <<tasks, secrets, want, have, cur, currSecretValue, currSecret,
                   currToken, err, tokens, passErr, fixed>>
    /\ UNCHANGED <<listVars, runVars, buildVars>>

updateServiceToken_UpdateSecret ==
    /\ pc = "UpdateSecret"
    /\ LET name == secretName(SecretPrefix, cur) IN
       \/ /\ name \in DOMAIN secrets
          /\ secrets' = [secrets EXCEPT ![name] =
                Marshal(SecretFor(serviceToken[1]))]
          /\ calls' = Bump(cur, "write")
          /\ Return(cur, nil, FALSE)
       \/ /\ Return(cur, <<"updating service token", "updating secret">>, TRUE)
          /\ UNCHANGED <<secrets, calls>>
    /\ UNCHANGED <<tasks, live, nextId, want, have, cur, locals, passErr, fixed>>
    /\ UNCHANGED <<listVars, runVars, buildVars>>

----------------------------------------------------------------------------
(* TaskDefinitionLister.DeleteTokenInfo                                    *)

ClearedDoc_Zero == Marshal(ZeroSecret)

\* The document DeleteTokenInfo overwrites the secret with.
ClearedDoc == EmptyDoc

AfterTokenDelete_ClearFirst(rest) == "ClearSecret"

\* The loop over the tokens goes on until none is left; UpdateSecret follows it.
AfterTokenDelete(rest) == IF rest = {} THEN "ClearSecret" ELSE "TokenDelete"

DeleteTokenInfo_TokenDelete ==
    /\ pc = "TokenDelete"
    /\ \E t \in tokens :
          \/ /\ live' = live \ {t}
             /\ tokens' = tokens \ {t}
             /\ calls' = Bump(cur, "delete")
             /\ pc' = AfterTokenDelete(tokens')
             /\ UNCHANGED <<ret, partial>>
          \/ /\ Return(cur, <<"deleting token">>, FALSE)
             /\ UNCHANGED <<live, tokens, calls>>
    /\ UNCHANGED <<tasks, nextId, secrets, want, have, cur, currSecretValue,
                   currSecret, currToken, err, serviceToken, passErr, fixed>>
    /\ UNCHANGED <<listVars, runVars, buildVars>>

AfterUpdateSecret_LogOnly(failed) == nil

\* What DeleteTokenInfo returns after its UpdateSecret call.
AfterUpdateSecret(failed) == IF failed THEN <<"updating secret">> ELSE nil

DeleteTokenInfo_UpdateSecret ==
    /\ pc = "ClearSecret"
    /\ LET name == secretName(SecretPrefix, cur) IN
       \/ /\ name \in DOMAIN secrets
          /\ secrets' = [secrets EXCEPT ![name] = ClearedDoc]
          /\ calls' = Bump(cur, "write")
          /\ Return(cur, AfterUpdateSecret(FALSE), FALSE)
       \/ \* the call fails; it always does for a secret that does not exist
          /\ Return(cur, AfterUpdateSecret(TRUE), FALSE)
          /\ UNCHANGED <<secrets, calls>>
    /\ UNCHANGED <<tasks, live, nextId, want, have, cur, locals, passErr, fixed>>
    /\ UNCHANGED <<listVars, runVars, buildVars>>

----------------------------------------------------------------------------
Next ==
    \/ Reconcile_Start
    \/ Reconcile_List
    \/ Reconcile_TokenList
    \/ Reconcile_Upsert
    \/ Reconcile_Delete
    \/ Reconcile_End
    \/ InventoryChange
    \/ Upsert_GetSecretValue
    \/ Upsert_TokenRead
    \/ updateServiceToken_TokenCreate
    \/ updateServiceToken_UpdateSecret
    \/ DeleteTokenInfo_TokenDelete
    \/ DeleteTokenInfo_UpdateSecret

Spec == Init /\ [][Next]_vars

----------------------------------------------------------------------------
(* Properties.                                                             *)

Name(f) == secretName(SecretPrefix, f)

\* The accessor the secret of family f holds; "" when it holds none.
AccessorIn(f) ==
    IF Name(f) \in DOMAIN secrets THEN tokenSecretJSON(secrets[Name(f)]).AccessorID ELSE ""

\* The secret of family f names a token the controller has deleted.
Dangling(f) == AccessorIn(f) \in DeletedIDs

\* Upsert of family cur has returned to the pass.
UpsertReturned == pc \in {"Loop", "idle"} /\ cur \in want /\ cur \in DOMAIN ret

\* Upsert of family cur is running.
InUpsert == pc \in {"GetSecretValue", "TokenRead", "TokenCreate", "UpdateSecret"}

CreateFailed == <<"updating service token", "creating envoy token">>
StoreFailed  == <<"updating service token", "updating secret">>

\* C1: at most one live controller-owned credential is bound to any one
\* family, in every state the serialized passes reach, failed calls included.
C1_AtMostOneLive == \A f \in Families : Cardinality(Owned(f)) <= 1

\* C2: when the latest Upsert of a family created a credential and failed to
\* store it, the next Upsert of that family creates no further credential.
C2_PartialFailureRecovery ==
    (InUpsert /\ cur \in partial) => calls[cur].create = 0

\* C3: an Upsert whose secret holds an accessor that the control plane reads
\* back as an existing token returns nil, creates no token and writes no secret.
C3_IdempotentIssuance ==
    (UpsertReturned /\ currSecret.AccessorID # "" /\ currToken # <<>>)
        => /\ ret[cur] = nil
           /\ calls[cur].create = 0
           /\ calls[cur].write = 0

C3_Witness ==
    /\ UpsertReturned /\ currSecret.AccessorID # "" /\ currToken # <<>>
    /\ ret[cur] = nil
    /\ currToken[1] \in Owned(cur)

\* C4: with the inventory unchanged after a pass that completed without any
\* error, a further pass without failing calls creates no token, deletes no
\* token and writes no secret.
C4_SecondPassFixedPoint ==
    (fixed /\ pc # "idle" /\ \A f \in DOMAIN ret : ret[f] = nil)
        => /\ \A f \in Families :
                calls[f].create = 0 /\ calls[f].delete = 0 /\ calls[f].write = 0
           /\ pc \notin {"TokenCreate", "UpdateSecret", "TokenDelete", "ClearSecret"}

C4_Witness ==
    /\ fixed /\ pc = "Loop" /\ want # {}
    /\ DOMAIN ret = want /\ \A f \in want : ret[f] = nil
    /\ nextId > 2
    /\ \E f \in Families \ want :
          Name(f) \in DOMAIN secrets /\ secrets[Name(f)] = EmptyDoc

\* C5: when the token read for the accessor of the secret answers not-found,
\* Upsert goes on to issue: it never returns the read error, and when it
\* returns nil it has created one token of the family and the secret holds
\* that token's accessor and secret id.
C5_StaleSecretSelfHeal ==
    /\ (err = ACLNotFound /\ ~UpsertReturned) => pc \in {"TokenCreate", "UpdateSecret"}
    /\ (err = ACLNotFound /\ UpsertReturned)
          => /\ ret[cur] \in {nil, CreateFailed, StoreFailed}
             /\ ret[cur] = nil
                  => /\ calls[cur].create = 1
                     /\ serviceToken # <<>>
                     /\ serviceToken[1] \in Owned(cur)
                     /\ serviceToken[1].AccessorID # currSecret.AccessorID
                     /\ secrets[Name(cur)] =
                           ("accessor_id" :> serviceToken[1].AccessorID)
                           @@ ("token" :> serviceToken[1].SecretID)

C5_Witness ==
    /\ err = ACLNotFound /\ UpsertReturned /\ ret[cur] = nil
    /\ currSecret.AccessorID \in DeletedIDs
    /\ AccessorIn(cur) \in LiveIDs

\* C6: after DeleteTokenInfo of a family of have that is not in want returned
\* nil, no token listed under the family is live, the family has no live
\* token at all and its secret is the document {}.
C6_OrphanCleanup ==
    \A f \in DOMAIN ret :
        (f \in DOMAIN have /\ f \notin want /\ ret[f] = nil)
            => /\ have[f] \cap live = {}
               /\ Owned(f) = {}
               /\ Name(f) \in DOMAIN secrets
               /\ secrets[Name(f)] = EmptyDoc

C6_Witness ==
    \E f \in DOMAIN ret :
        /\ f \in DOMAIN have /\ f \notin want /\ ret[f] = nil
        /\ Cardinality(have[f]) = 2
        /\ calls[f].delete = 2

\* C7 as claimed: in every reachable state no secret holds the accessor of a
\* token the controller has deleted.
C7_NeverReferencesDeleted == \A f \in Families : ~Dangling(f)

\* C7 as amended: a secret comes to name a deleted token only by a token
\* deletion of the DeleteTokenInfo of that very family, and every write of a
\* secret leaves it naming no deleted token.
C7_DanglingOnlyInsideRevocation ==
    [][\A f \in Families :
          /\ (~Dangling(f) /\ Dangling(f)')
                => (pc = "TokenDelete" /\ cur = f /\ secrets' = secrets)
          /\ (Name(f) \in DOMAIN secrets /\ secrets'[Name(f)] # secrets[Name(f)])
                => ~Dangling(f)']_vars

C7_Witness ==
    /\ pc = "ClearSecret" /\ Dangling(cur)
    /\ \E f \in Families : f # cur /\ AccessorIn(f) \in LiveIDs

C9_AbsentTreatedAsEmpty ==
    (UpsertReturned /\ Name(cur) \notin DOMAIN secrets)
        => ret[cur] \in {nil, CreateFailed, StoreFailed}

\* C9 as amended: for a secret read as the document {} Upsert reads no token
\* and goes on to issue, storing the token when no call fails; for a secret
\* that does not exist Upsert returns the retrieval error and creates nothing.
C9_EmptyIssuesAbsentFails ==
    /\ (UpsertReturned /\ currSecretValue = <<EmptyDoc>>)
          => /\ ret[cur] \in {nil, CreateFailed, StoreFailed}
             /\ calls[cur].read = 0
             /\ ret[cur] = nil
                  => /\ calls[cur].create = 1
                     /\ AccessorIn(cur) = serviceToken[1].AccessorID
    /\ (UpsertReturned /\ Name(cur) \notin DOMAIN secrets)
          => /\ ret[cur] = <<"retrieving secret">> \o ResourceNotFound
             /\ calls[cur].create = 0
             /\ calls[cur].write = 0

C9_Witness ==
    /\ UpsertReturned /\ currSecretValue = <<EmptyDoc>> /\ ret[cur] = nil
    /\ \E f \in want :
          f # cur /\ Name(f) \notin DOMAIN secrets /\ f \in DOMAIN ret

\* C10: a pass that got past the two listings ends only after it has called
\* the convergence of every family of want and of have minus want, whatever
\* errors some of them returned, and then returns the combined error.
C10_ErrorIsolation ==
    (pc = "idle" /\ passErr \notin {<<"listing tasks">>, <<"reading token list">>})
        => /\ DOMAIN ret = want \cup DOMAIN have
           /\ passErr # nil <=> \E f \in DOMAIN ret : ret[f] # nil

C10_Witness ==
    /\ pc = "idle" /\ passErr = <<"reconcile failed">>
    /\ \E f \in want, g \in DOMAIN have \ want :
          /\ ret[f] # nil
          /\ ret[g] = nil
          /\ calls[g].delete > 0

\* The DeleteTokenInfo of family f deleted every token listed under f and then
\* failed to overwrite the secret.
OverwriteFailed(f) ==
    /\ f \in DOMAIN ret /\ f \in DOMAIN have /\ f \notin want
    /\ calls[f].delete = Cardinality(have[f])
    /\ calls[f].write = 0

\* The pass got past the two listings and has ended.
PassEnded == pc = "idle" /\ passErr \notin {<<"listing tasks">>, <<"reading token list">>}

\* C11 as claimed: when every deletion succeeded and the overwrite of the
\* secret failed, the deleted tokens stay deleted, the family is only logged
\* and the run is not reported as failed because of it.
C11_OverwriteFailureOnlyLogged ==
    \A f \in Families :
        OverwriteFailed(f)
            => /\ have[f] \cap live = {}
               /\ ret[f] = nil
               /\ (PassEnded /\ \A g \in DOMAIN ret \ {f} : ret[g] = nil) => passErr = nil

\* C11 as amended: the failure does not stop the run; the deleted tokens stay
\* deleted and every other family is still converged, but DeleteTokenInfo
\* returns the error "updating secret" and the pass reports the combined error.
C11_OverwriteFailureReturned ==
    \A f \in Families :
        OverwriteFailed(f)
            => /\ have[f] \cap live = {}
               /\ ret[f] = <<"updating secret">>
               /\ PassEnded => /\ passErr # nil
                               /\ DOMAIN ret = want \cup DOMAIN have

C11_Witness ==
    /\ PassEnded
    /\ \E f \in Families, g \in DOMAIN ret :
          /\ OverwriteFailed(f) /\ g # f
          /\ Name(f) \in DOMAIN secrets /\ Dangling(f)
          /\ ret[g] = nil

\* C14: the have set of a pass holds exactly the live tokens with exactly one
\* service identity, each family's key holding all of them; tokens with no or
\* several identities are in no key and no step of the controller deletes them.
C14_HaveIsSingleClaimTokens ==
    [][/\ (pc = "TokenList" /\ pc' = "Loop")
            => /\ \A t \in live :
                    Len(t.ServiceIdentities) = 1 <=> \E f \in DOMAIN have' : t \in have'[f]
               /\ \A f \in DOMAIN have' :
                    /\ have'[f] # {}
                    /\ have'[f] = { t \in live : t.ServiceIdentities = <<f>> }
       /\ \A t \in live : Len(t.ServiceIdentities) # 1 => t \in live']_vars

C14_Witness ==
    /\ pc = "Loop" /\ ForeignTokens \subseteq live
    /\ \E f \in DOMAIN have : Cardinality(have[f]) = 2
    /\ \E g \in Families : calls[g].delete > 0

\* C15: a step that creates a token for a family is taken inside that family's
\* Upsert after the family's secret was read in this pass and, when the secret
\* holds an accessor, after the token with that accessor was read.
C15_ReadBeforeIssue ==
    [][\A f \in Families :
          calls'[f].create > calls[f].create
              => /\ cur = f
                 /\ currSecretValue # <<>>
                 /\ currSecretValue[1] = secrets[Name(f)]
                 /\ tokenSecretJSON(currSecretValue[1]).AccessorID # ""
                       => calls[f].read >= 1 /\ err = ACLNotFound]_vars

C15_Witness ==
    /\ pc = "UpdateSecret" /\ calls[cur].create = 1
    /\ currSecret.AccessorID # "" /\ calls[cur].read = 1

\* C16: while family cur is converged, the tokens of every other family, the
\* tokens that are not controller-owned and the secret of every other family
\* stay as they are, and no secret is added or removed.
C16_FamiliesShareNoState ==
    [][/\ \A g \in Families \ {cur} :
             /\ { t \in live' : t.ServiceIdentities = <<g>> } = Owned(g)
             /\ Name(g) \in DOMAIN secrets => secrets'[Name(g)] = secrets[Name(g)]
       /\ { t \in live' : Len(t.ServiceIdentities) # 1 }
             = { t \in live : Len(t.ServiceIdentities) # 1 }
       /\ DOMAIN secrets' = DOMAIN secrets]_vars

C16_Witness ==
    /\ pc = "Loop"
    /\ \E f \in want, g \in DOMAIN have \ want :
          /\ f \in DOMAIN ret /\ g \in DOMAIN ret
          /\ calls[f].create = 1 /\ calls[f].write = 1
          /\ calls[g].delete > 0 /\ calls[g].write = 1
          /\ AccessorIn(f) \in LiveIDs /\ secrets[Name(g)] = EmptyDoc

\* C35: the token updateServiceToken has created for a family carries the
\* one service identity of that family, and TokenList of the live tokens
\* lists every token the controller created under the family of its one
\* identity and under no other key.
C35_IssueListRoundTrip ==
    /\ pc = "UpdateSecret" =>
          /\ serviceToken[1].ServiceIdentities = <<cur>>
          /\ cur \in DOMAIN TokenList(live)
          /\ serviceToken[1] \in TokenList(live)[cur]
    /\ \A t \in live :
          t.AccessorID \in Issued =>
              /\ Len(t.ServiceIdentities) = 1
              /\ \A f \in DOMAIN TokenList(live) :
                    t \in TokenList(live)[f] <=> f = t.ServiceIdentities[1]
              /\ t.ServiceIdentities[1] \in DOMAIN TokenList(live)

C35_Witness ==
    /\ pc = "UpdateSecret"
    /\ cur = "db"
    /\ serviceToken[1] \in TokenList(live)["db"]
    /\ "web" \in DOMAIN TokenList(live)
    /\ ForeignTokens \subseteq live

\* C36: after Upsert returned nil for a family, the secret of the family holds
\* a non-empty accessor_id, and it is the accessor of a live token whose one
\* service identity is the family.
C36_UpsertSuccessSecretNamesLiveToken ==
    \A f \in DOMAIN ret :
        (f \in want /\ ret[f] = nil) =>
            /\ Name(f) \in DOMAIN secrets
            /\ tokenSecretJSON(secrets[Name(f)]).AccessorID # ""
            /\ \E t \in live :
                  /\ t.AccessorID = tokenSecretJSON(secrets[Name(f)]).AccessorID
                  /\ t.ServiceIdentities = <<f>>

C36_Witness ==
    /\ want = {"web", "db"}
    /\ DOMAIN ret = {"web", "db"}
    /\ ret["web"] = nil /\ calls["web"].read = 1 /\ calls["web"].create = 0
    /\ ret["db"] = nil /\ calls["db"].create = 1 /\ calls["db"].write = 1
    /\ tokenSecretJSON(secrets[Name("web")]).AccessorID \in LiveIDs

\* C37: a token deletion of DeleteTokenInfo that fails ends it with an error
\* and with the live tokens, the tokens not yet deleted, the secrets and the
\* count of calls as they were; no call for the family follows in the pass;
\* and DeleteTokenInfo writes the secret only when every token listed for the
\* family is deleted, and then with the document {}.
C37_DeleteStopsAtFirstFailure ==
    [][/\ (pc = "TokenDelete" /\ pc' = "Loop") =>
             /\ ret'[cur] # nil
             /\ UNCHANGED <<secrets, live, tokens, calls, cur>>
       /\ (cur' = cur /\ cur \in DOMAIN ret /\ pc # "idle") => calls'[cur] = calls[cur]
       /\ (pc \in {"TokenDelete", "ClearSecret"} /\ secrets' # secrets) =>
             /\ pc = "ClearSecret"
             /\ tokens = {}
             /\ have[cur] \cap live = {}
             /\ calls[cur].delete = Cardinality(have[cur])
             /\ secrets' = [secrets EXCEPT ![Name(cur)] = EmptyDoc]]_vars

C37_Witness ==
    /\ pc = "Loop"
    /\ cur \notin want
    /\ cur \in DOMAIN ret
    /\ ret[cur] = <<"deleting token">>
    /\ Cardinality(have[cur]) = 2
    /\ calls[cur].delete = 1
    /\ Cardinality(have[cur] \cap live) = 1
    /\ tokenSecretJSON(secrets[Name(cur)]).AccessorID # ""

----------------------------------------------------------------------------
(* TaskDefinitionLister.List and TaskDefinitionLister.TokenList, one       *)
(* remote call per step.  ECS decides how it splits the tasks into pages.  *)

\* Largest number of tasks in the cluster.
MaxTasks == 4

\* Largest number of task ARNs in one ListTasks page.
MaxPageLen == 2

\* Largest number of tokens the control plane lists.
MaxListed == 3

meshTag == "consul.hashicorp.com/mesh"

\* A string that the code splits is a sequence of pieces; a separator is a
\* piece of its own.
RECURSIVE Split(_, _)
Split(s, sep) ==
    IF \A i \in 1..Len(s) : s[i] # sep
    THEN <<s>>
    ELSE LET i == CHOOSE k \in 1..Len(s) : s[k] = sep /\ \A j \in 1..(k - 1) : s[j] # sep
         IN  <<SubSeq(s, 1, i - 1)>> \o Split(SubSeq(s, i + 1, Len(s)), sep)

\* The string a sequence of pieces stands for.
RECURSIVE Concat(_)
Concat(s) == IF s = <<>> THEN "" ELSE Head(s) \o Concat(Tail(s))

parseFamilyNameFromTaskDefinitionARN_Lenient(task) ==
    [family |-> Concat(Split(task.TaskDefinitionArn, "/")[1]), err |-> nil]

parseFamilyNameFromTaskDefinitionARN(task) ==
    LET failed == [family |-> "", err |-> <<"cannot determine task family from task definition ARN">>]
        splits == Split(task.TaskDefinitionArn, "/")
    IN  IF Len(splits) # 2 THEN failed
        ELSE LET taskFamilyAndRevision == Split(splits[2], ":")
             IN  IF Len(taskFamilyAndRevision) # 2 THEN failed
                 ELSE [family |-> Concat(taskFamilyAndRevision[1]), err |-> nil]

\* Key and Value of a tag are pointers: <<>> is nil.
RECURSIVE tagValue(_, _)
tagValue(tags, key) ==
    IF tags = <<>> THEN ""
    ELSE LET t == Head(tags)
         IN  IF t.Key # <<>> /\ t.Key[1] = key
             THEN IF t.Value = <<>> THEN "" ELSE t.Value[1]
             ELSE tagValue(Tail(tags), key)

isMeshTask_Always(task) == TRUE

isMeshTask(task) == tagValue(task.Tags, meshTag) = "true"

Tag(k, v) == [Key |-> <<k>>, Value |-> <<v>>]

Arn(family, revision) ==
    <<"arn", ":", "ecs", ":", "task-definition", "/", family, ":", revision>>

\* The tasks a cluster is made of.
TaskKinds == {"nil", "web1", "web2", "db1", "plain", "off", "unset", "bad"}

\* What DescribeTasks answers for one task: <<>> is a nil entry.
DescribedTask(kind) ==
    CASE kind = "nil"   -> <<>>
      [] kind = "web1"  -> <<[TaskDefinitionArn |-> Arn("web", "1"),
                              Tags |-> <<Tag(meshTag, "true")>>]>>
      [] kind = "web2"  -> <<[TaskDefinitionArn |-> Arn("web", "2"),
                              Tags |-> <<Tag("team", "true"), Tag(meshTag, "true")>>]>>
      [] kind = "db1"   -> <<[TaskDefinitionArn |-> Arn("db", "1"),
                              Tags |-> <<Tag(meshTag, "true")>>]>>
      [] kind = "plain" -> <<[TaskDefinitionArn |-> <<"api">>, Tags |-> <<>>]>>
      [] kind = "off"   -> <<[TaskDefinitionArn |-> Arn("api", "1"),
                              Tags |-> <<Tag(meshTag, "false"), Tag(meshTag, "true")>>]>>
      [] kind = "unset" -> <<[TaskDefinitionArn |-> Arn("api", "2"),
                              Tags |-> <<[Key |-> <<>>, Value |-> <<"true">>],
                                         [Key |-> <<meshTag>>, Value |-> <<>>]>>]>>
      [] kind = "bad"   -> <<[TaskDefinitionArn |-> <<"arn", ":", "task-definition", "/", "web">>,
                              Tags |-> <<Tag(meshTag, "true")>>]>>

\* The resource List makes for a family.
TaskFamily(family) == [SecretPrefix |-> SecretPrefix, TaskFamily |-> family]

\* The loop of List over the tasks of one page.
RECURSIVE RangeTasks(_, _, _)
RangeTasks(ts, fams, res) ==
    IF ts = <<>> THEN [taskFamilies |-> fams, resources |-> res, err |-> nil]
    ELSE LET task == Head(ts) IN
         IF task = <<>> THEN RangeTasks(Tail(ts), fams, res)
         ELSE IF ~isMeshTask(task[1]) THEN RangeTasks(Tail(ts), fams, res)
         ELSE LET p == parseFamilyNameFromTaskDefinitionARN(task[1]) IN
              IF p.err # nil
              THEN [taskFamilies |-> fams, resources |-> <<>>,
                    err |-> Wrap("parsing family from ARN", p.err)]
              ELSE IF p.family \in fams THEN RangeTasks(Tail(ts), fams, res)
              ELSE RangeTasks(Tail(ts), fams \cup {p.family}, Append(res, TaskFamily(p.family)))

\* Errors of the ECS API.
RequestError == <<"RequestError">>

\* The tokens the control plane may list.
ListedTokens == ForeignTokens \cup {NewToken(1, "web"), NewToken(2, "web"), NewToken(3, "db")}

\* The controller of the reconciliation pass is not running.
CtlOff ==
    /\ tasks = {}
    /\ live = {}
    /\ nextId = 1
    /\ secrets = <<>>
    /\ pc = "off"
    /\ want = {}
    /\ have = <<>>
    /\ cur = ""
    /\ currSecretValue = <<>>
    /\ currSecret = ZeroSecret
    /\ currToken = <<>>
    /\ err = nil
    /\ serviceToken = <<>>
    /\ tokens = {}
    /\ ret = <<>>
    /\ calls = [f \in Families |-> ZeroCalls]
    /\ passErr = nil
    /\ partial = {}
    /\ fixed = FALSE

InitList ==
    /\ CtlOff
    /\ RunOff
    /\ BuildOff
    /\ \/ /\ lpc = "ListTasks"
          /\ cluster \in UNION { [1..n -> TaskKinds] : n \in 0..MaxTasks }
          /\ acl = <<>>
       \/ /\ lpc = "TokenList"
          /\ cluster = <<>>
          /\ acl \in { s \in UNION { [1..n -> ListedTokens] : n \in 0..MaxListed } :
                          \A i, j \in 1..Len(s) : s[i] = s[j] => i = j }
    /\ offset = 0
    /\ requests = 0
    /\ nextToken = <<>>
    /\ taskListOutput = <<>>
    /\ taskFamilies = {}
    /\ resources = <<>>
    /\ tokenList = <<>>
    /\ tokensByFamily = <<>>
    /\ lret = <<>>

\* List returns.
ListReturn(res, e) ==
    /\ lret' = <<[resources |-> res, err |-> e]>>
    /\ lpc' = "done"

\* ECSClient.ListTasks with the cursor nextToken: ECS answers with the next
\* tasks, at most MaxPageLen of them, and a cursor unless it has none left.
List_ListTasks ==
    /\ lpc = "ListTasks"
    /\ requests' = requests + 1
    /\ \/ /\ ListReturn(<<>>, Wrap("listing tasks", RequestError))
          /\ UNCHANGED <<offset, nextToken, taskListOutput>>
       \/ LET start == IF nextToken = <<>> THEN 0 ELSE nextToken[1] IN
          \E n \in 0..MaxPageLen, more \in BOOLEAN :
             /\ start + n <= Len(cluster)
             /\ n >= 1 \/ start = Len(cluster)
             /\ start + n < Len(cluster) => more
             /\ more => n >= 1
             /\ taskListOutput' = [TaskArns  |-> SubSeq(cluster, start + 1, start + n),
                                   NextToken |-> IF more THEN <<start + n>> ELSE <<>>]
             /\ nextToken' = taskListOutput'.NextToken
             /\ offset' = start + n
             /\ lpc' = "DescribeTasks"
             /\ UNCHANGED lret
    /\ UNCHANGED <<cluster, acl, taskFamilies, resources, tokenList, tokensByFamily>>
    /\ UNCHANGED <<ctlVars, runVars, buildVars>>

\* ECSClient.DescribeTasks for the page, the loop over its tasks and the
\* test of nextToken.
List_DescribeTasks ==
    /\ lpc = "DescribeTasks"
    /\ \/ /\ ListReturn(<<>>, Wrap("describing tasks", RequestError))
          /\ UNCHANGED <<taskFamilies, resources>>
       \/ LET arns == taskListOutput.TaskArns
              r == RangeTasks([i \in 1..Len(arns) |-> DescribedTask(arns[i])],
                              taskFamilies, resources)
          IN  IF r.err # nil
              THEN /\ ListReturn(<<>>, r.err)
                   /\ UNCHANGED <<taskFamilies, resources>>
              ELSE /\ taskFamilies' = r.taskFamilies
                   /\ resources' = r.resources
                   /\ IF nextToken = <<>>
                      THEN ListReturn(r.resources, nil)
                      ELSE lpc' = "ListTasks" /\ UNCHANGED lret
    /\ UNCHANGED <<cluster, acl, offset, requests, nextToken, taskListOutput,
                   tokenList, tokensByFamily>>
    /\ UNCHANGED <<ctlVars, runVars, buildVars>>

\* TokenList returns.
TokenListReturn(m, e) ==
    /\ lret' = <<[tokens |-> m, err |-> e]>>
    /\ lpc' = "done"

\* ConsulClient.ACL().TokenList.
TokenList_TokenList ==
    /\ lpc = "TokenList"
    /\ \/ /\ TokenListReturn(tokensByFamily, Wrap("reading token list", ServerError))
          /\ UNCHANGED tokenList
       \/ /\ tokenList' = acl
          /\ IF acl = <<>>
             THEN TokenListReturn(tokensByFamily, nil)
             ELSE lpc' = "TokenRead" /\ UNCHANGED lret
    /\ UNCHANGED <<cluster, acl, offset, requests, nextToken, taskListOutput,
                   taskFamilies, resources, tokensByFamily>>
    /\ UNCHANGED <<ctlVars, runVars, buildVars>>

\* tokens[family] = append(tokens[family], token)
AppendToken(m, family, token) ==
    (family :> (IF family \in DOMAIN m THEN Append(m[family], token) ELSE <<token>>)) @@ m

\* ConsulClient.ACL().TokenRead for the next entry of the token list.
TokenList_TokenRead ==
    /\ lpc = "TokenRead"
    /\ \/ /\ TokenListReturn(tokensByFamily, Wrap("reading token", ServerError))
          /\ UNCHANGED <<tokenList, tokensByFamily>>
       \/ LET token == Head(tokenList)
              m == IF Len(token.ServiceIdentities) = 1
                   THEN AppendToken(tokensByFamily, token.ServiceIdentities[1], token)
                   ELSE tokensByFamily
          IN  /\ tokensByFamily' = m
              /\ tokenList' = Tail(tokenList)
              /\ IF Tail(tokenList) = <<>>
                 THEN TokenListReturn(m, nil)
                 ELSE lpc' = "TokenRead" /\ UNCHANGED lret
    /\ UNCHANGED <<cluster, acl, offset, requests, nextToken, taskListOutput,
                   taskFamilies, resources>>
    /\ UNCHANGED <<ctlVars, runVars, buildVars>>

NextList ==
    \/ List_ListTasks
    \/ List_DescribeTasks
    \/ TokenList_TokenList
    \/ TokenList_TokenRead

SpecList == InitList /\ [][NextList]_vars

ListReturned  == lret # <<>> /\ "resources" \in DOMAIN lret[1]
TokenListReturned == lret # <<>> /\ "tokens" \in DOMAIN lret[1]

\* C12: a listing that returns an error returns no partial set with it: List
\* returns no resources and TokenList returns a map without entries.
C12_ListingErrorNoPartialSet ==
    /\ (ListReturned /\ lret[1].err # nil) => lret[1].resources = <<>>
    /\ (TokenListReturned /\ lret[1].err # nil) => DOMAIN lret[1].tokens = {}

\* The family a task of the cluster counts for: the family of its task
\* definition when it is tagged consul.hashicorp.com/mesh = "true".
MeshFamilyOf(kind) ==
    CASE kind \in {"web1", "web2"} -> <<"web">>
      [] kind = "db1" -> <<"db">>
      [] OTHER -> <<>>

\* The distinct elements of s in order of first occurrence.
RECURSIVE FirstOccurrences(_, _)
FirstOccurrences(s, seen) ==
    IF s = <<>> THEN <<>>
    ELSE IF Head(s) \in seen THEN FirstOccurrences(Tail(s), seen)
    ELSE <<Head(s)>> \o FirstOccurrences(Tail(s), seen \cup {Head(s)})

RECURSIVE MeshFamilies(_)
MeshFamilies(c) == IF c = <<>> THEN <<>> ELSE MeshFamilyOf(Head(c)) \o MeshFamilies(Tail(c))

\* C13: a List that returns without error has requested pages until one came
\* without cursor, has been given every task of the cluster, and returns one
\* resource per distinct family of the mesh-tagged tasks in order of first
\* occurrence, however ECS split the tasks into pages.
C13_PaginationExhaustive ==
    (ListReturned /\ lret[1].err = nil)
        => /\ nextToken = <<>>
           /\ offset = Len(cluster)
           /\ [i \in 1..Len(lret[1].resources) |-> lret[1].resources[i].TaskFamily]
                 = FirstOccurrences(MeshFamilies(cluster), {})

C13_Witness ==
    /\ ListReturned /\ lret[1].err = nil
    /\ cluster = <<"web1", "plain", "db1", "web2">>
    /\ requests = 3
    /\ lret[1].resources = <<TaskFamily("web"), TaskFamily("db")>>

\* C33: a mesh-tagged task whose task-definition ARN is not of the form
\* <x>/<family>:<revision> makes List fail: with such a task in the cluster
\* List never returns without error, and when it is among the tasks List was
\* given, List returns no resources and the parse error, whatever valid tasks
\* came before it; without one among the tasks List was given, List returns
\* no parse error, also when untagged tasks with such an ARN were given.
C33_MalformedMeshARNFailsList ==
    ListReturned =>
        /\ lret[1].err = nil => \A i \in 1..Len(cluster) : cluster[i] # "bad"
        /\ Contains(lret[1].err, <<"parsing family from ARN">>) =>
              /\ lret[1].resources = <<>>
              /\ \E i \in 1..offset : cluster[i] = "bad"
        /\ (\A i \in 1..offset : cluster[i] # "bad") =>
              ~Contains(lret[1].err, <<"parsing family from ARN">>)

C33_Witness ==
    /\ ListReturned
    /\ cluster = <<"web1", "plain", "db1", "bad">>
    /\ requests = 2
    /\ Contains(lret[1].err, <<"parsing family from ARN">>)
    /\ lret[1].resources = <<>>

----------------------------------------------------------------------------
(* mesh-init: Command.Run and Command.realRun, one fallible call per step. *)

\* Largest number of retries retryLogger logs in one run.
MaxRetries == 2

\* time.Second, in nanoseconds.
Second == 1000000000

\* backoff.NewConstantBackOff(d): NextBackOff always answers d.
NextBackOff(d) == d

\* time.Duration.String for whole seconds.
DurationString(d) ==
    LET s == d \div Second
        h == s \div 3600
        m == (s % 3600) \div 60
        sec == s % 60
    IN  IF h > 0 THEN ToString(h) \o "h" \o ToString(m) \o "m" \o ToString(sec) \o "s"
        ELSE IF m > 0 THEN ToString(m) \o "m" \o ToString(sec) \o "s"
        ELSE ToString(sec) \o "s"

retryLogger_NoDuration(e, duration) == [msg |-> e, retry |-> ""]

\* log.Error(err.Error(), "retry", duration.String())
retryLogger(e, duration) == [msg |-> e, retry |-> DurationString(duration)]

\* Errors Catalog().Register answers with.
RegisterErrors == {PermissionDenied, ServerError}

dataplaneConfigFileName == "consul-dataplane.json"
caCertFileName == "consul-grpc-ca-cert.pem"

\* What Run finds in its environment.
Configs ==
    [valid : BOOLEAN, bootstrapDir : {"", "/consul"}, gateway : BOOLEAN,
     tls : {"off", "file", "pem"}]

\* config.FromEnv: the error it returns, nil for a configuration that loads
\* and has its required settings.
FromEnv(environment) ==
    IF environment.valid /\ environment.bootstrapDir # ""
    THEN nil ELSE <<"invalid config">>

ConfigError_None(a, environment) == nil

\* What Run prints with UI.Error before it returns 1 without calling realRun;
\* nil when it calls realRun.
ConfigError(a, environment) ==
    IF Len(a) > 0 THEN <<"unexpected argument">>
    ELSE IF FromEnv(environment) # nil THEN FromEnv(environment)
    ELSE nil

InitRun ==
    /\ CtlOff
    /\ ListOff
    /\ BuildOff
    /\ rpc = "Run"
    /\ args \in {<<>>, <<"extra">>}
    /\ config \in Configs
    /\ watcher = "none"
    /\ ctx = "none"
    /\ defers = <<>>
    /\ steps = <<>>
    /\ attempts = [c \in {"service", "proxy"} |-> 0]
    /\ retryLog = <<>>
    /\ catalog = <<>>
    /\ files = <<>>
    /\ rerr = nil
    /\ serviceRegistration = <<>>
    /\ proxyRegistration = <<>>
    /\ ui = <<>>
    /\ exitCode = <<>>
    /\ euid \in {"root", "user"}
    /\ runs = 1
    /\ rpcCACertFile = <<>>

Defer_Dropped(call, d) == d

\* defer call(): the call deferred last runs first.
Defer(call, d) == <<call>> \o d

\* The step at rpc succeeded.
Proceed(next) ==
    /\ steps' = Append(steps, rpc)
    /\ rpc' = next
    /\ UNCHANGED rerr

\* return err
Fail(e) ==
    /\ rerr' = e
    /\ rpc' = "return"
    /\ UNCHANGED steps

\* Run up to the call of realRun.
Run_FromEnv ==
    /\ rpc = "Run"
    /\ IF ConfigError(args, config) # nil
       THEN /\ ui' = Append(ui, ConfigError(args, config))
            /\ exitCode' = <<1>>
            /\ rpc' = "exited"
       ELSE /\ rpc' = "ECSTaskMetadata"
            /\ UNCHANGED <<ui, exitCode>>
    /\ UNCHANGED <<args, config, watcher, ctx, defers, steps, attempts, retryLog, catalog,
                   files, rerr, serviceRegistration, proxyRegistration>>
    /\ UNCHANGED <<ctlVars, listVars, buildVars, euid, runs, rpcCACertFile>>

realRun_ECSTaskMetadata ==
    /\ rpc = "ECSTaskMetadata"
    /\ ctx' = "active"
    /\ defers' = Defer("cancelFunc", defers)
    /\ \/ Proceed("ClusterARN")
       \/ Fail(<<"ECS task metadata">>)
    /\ UNCHANGED <<args, config, watcher, attempts, retryLog, catalog, files,
                   serviceRegistration, proxyRegistration, ui, exitCode>>
    /\ UNCHANGED <<ctlVars, listVars, buildVars, euid, runs, rpcCACertFile>>

realRun_ClusterARN ==
    /\ rpc = "ClusterARN"
    /\ \/ Proceed("ConsulServerConnMgrConfig")
       \/ Fail(<<"cluster ARN">>)
    /\ UNCHANGED <<args, config, watcher, ctx, defers, attempts, retryLog, catalog, files,
                   serviceRegistration, proxyRegistration, ui, exitCode>>
    /\ UNCHANGED <<ctlVars, listVars, buildVars, euid, runs, rpcCACertFile>>

realRun_ConsulServerConnMgrConfig ==
    /\ rpc = "ConsulServerConnMgrConfig"
    /\ \/ Proceed("NewWatcher")
       \/ Fail(<<"constructing server connection manager config">>)
    /\ UNCHANGED <<args, config, watcher, ctx, defers, attempts, retryLog, catalog, files,
                   serviceRegistration, proxyRegistration, ui, exitCode>>
    /\ UNCHANGED <<ctlVars, listVars, buildVars, euid, runs, rpcCACertFile>>

\* discovery.NewWatcher, go watcher.Run(), defer watcher.Stop()
realRun_NewWatcher ==
    /\ rpc = "NewWatcher"
    /\ \/ /\ Proceed("State")
          /\ watcher' = "running"
          /\ defers' = Defer("watcher.Stop", defers)
       \/ /\ Fail(<<"unable to create consul server watcher">>)
          /\ UNCHANGED <<watcher, defers>>
    /\ UNCHANGED <<args, config, ctx, attempts, retryLog, catalog, files,
                   serviceRegistration, proxyRegistration, ui, exitCode>>
    /\ UNCHANGED <<ctlVars, listVars, buildVars, euid, runs, rpcCACertFile>>

realRun_State ==
    /\ rpc = "State"
    /\ \/ Proceed("setupConsulAPIClient")
       \/ Fail(<<"unable to fetch consul server watcher state">>)
    /\ UNCHANGED <<args, config, watcher, ctx, defers, attempts, retryLog, catalog, files,
                   serviceRegistration, proxyRegistration, ui, exitCode>>
    /\ UNCHANGED <<ctlVars, listVars, buildVars, euid, runs, rpcCACertFile>>

\* ---- construction of the registrations ----

\* strings.ToLower on the letters the families below are written with.
ToLower(str) ==
    LET LowerOf(ch) == CASE ch = "W" -> "w"
                         [] ch = "E" -> "e"
                         [] ch = "B" -> "b"
                         [] OTHER -> ch
    IN  Concat([i \in 1..Len(str) |-> LowerOf(str[i])])

\* if c.config.Gateway != nil && c.config.Gateway.Kind != ""
IsGateway(c) == c.Gateway # <<>> /\ c.Gateway[1].Kind # ""

constructServiceName_AsGiven(c, family) ==
    LET configName == IF IsGateway(c) THEN c.Gateway[1].Name ELSE c.Service.Name
    IN  IF configName = "" THEN Concat(family) ELSE configName

\* The family is a string given letter by letter.
constructServiceName(c, family) ==
    LET configName == IF IsGateway(c) THEN c.Gateway[1].Name ELSE c.Service.Name
    IN  IF configName = "" THEN ToLower(family) ELSE configName

\* fmt.Sprintf("%s-%s", serviceName, taskID)
makeServiceID(serviceName, taskID) == serviceName \o "-" \o taskID

makeProxySvcIDAndName(serviceID, serviceName) ==
    [ID |-> serviceID \o "-sidecar-proxy", Name |-> serviceName \o "-sidecar-proxy"]

mergeMeta_FirstWins(m1, m2) ==
    [k \in DOMAIN m1 \cup DOMAIN m2 |-> IF k \in DOMAIN m1 THEN m1[k] ELSE m2[k]]

\* result is a new map: the entries of m1, then those of m2 over them.
mergeMeta(m1, m2) ==
    [k \in DOMAIN m1 \cup DOMAIN m2 |-> IF k \in DOMAIN m2 THEN m2[k] ELSE m1[k]]

\* The meta every registration starts from.
TaskMetaTags(tm) ==
    ("task-id" :> tm.TaskID) @@ ("task-arn" :> tm.TaskARN) @@ ("source" :> "consul-ecs")

\* nil is <<>>; region is what awsutil.GetAWSRegion answers.
getLocalityParams(tm, region) ==
    IF region = "" THEN <<>>
    ELSE <<[Region |-> region, Zone |-> tm.AvailabilityZone]>>

\* config.DefaultGatewayPort
DefaultGatewayPort == 8443

\* What c.config.Proxy.GetPublicListenerPort() answers with no port configured.
DefaultPublicListenerPort == 20000

\* An api.AgentService with the fields the command sets or copies.
AgentService(kind, port, tags) ==
    [ID |-> "", Service |-> "", Kind |-> kind, Address |-> "", Port |-> port,
     Meta |-> <<>>, Tags |-> tags, Proxy |-> <<>>, TaggedAddresses |-> <<>>,
     Locality |-> <<>>]

\* c.config.Service.ToConsulType()
ServiceToConsulType(service) == AgentService("", service.port, service.tags)

\* c.config.Gateway.ToConsulType()
GatewayToConsulType(gateway) == AgentService(gateway.Kind, 0, <<>>)

\* GatewayAddress.ToConsulType()
AddressToConsulType(addr) == [Address |-> addr.address, Port |-> addr.port]

\* c.config.Proxy.ToConsulType()
ProxyToConsulType(proxy) ==
    [Upstreams |-> proxy.upstreams, DestinationServiceID |-> "",
     DestinationServiceName |-> "", LocalServicePort |-> 0]

constructCatalogRegistrationPayload_ServiceAddress(service, tm, clusterARN) ==
    [Node |-> clusterARN, Address |-> service.Address, Service |-> service,
     SkipNodeUpdate |-> TRUE]

constructCatalogRegistrationPayload(service, tm, clusterARN) ==
    [Node |-> clusterARN, Address |-> tm.NodeIP, Service |-> service,
     SkipNodeUpdate |-> TRUE]

constructServiceRegistration(c, tm, clusterARN, region) ==
    LET serviceName == constructServiceName(c, tm.Family)
        serviceID   == makeServiceID(serviceName, tm.TaskID)
        fullMeta    == mergeMeta(TaskMetaTags(tm), c.Service.meta)
        service     == [ServiceToConsulType(c.Service) EXCEPT
                           !.ID = serviceID,
                           !.Service = serviceName,
                           !.Meta = fullMeta,
                           !.Address = tm.NodeIP,
                           !.Locality = getLocalityParams(tm, region)]
    IN  constructCatalogRegistrationPayload(service, tm, clusterARN)

DestinationPort_Listener(service) == DefaultPublicListenerPort

\* proxyService.Proxy.LocalServicePort = serviceRegistration.Service.Port
DestinationPort(service) == service.Port

constructProxyRegistration(c, registration, tm, clusterARN) ==
    LET svc   == registration.Service
        proxy == makeProxySvcIDAndName(svc.ID, svc.Service)
        proxyService ==
            [ID |-> proxy.ID, Service |-> proxy.Name, Kind |-> "connect-proxy",
             Address |-> tm.NodeIP, Port |-> DefaultPublicListenerPort,
             Meta |-> svc.Meta, Tags |-> svc.Tags,
             Proxy |-> <<[ProxyToConsulType(c.Proxy) EXCEPT
                             !.DestinationServiceID = svc.ID,
                             !.DestinationServiceName = svc.Service,
                             !.LocalServicePort = DestinationPort(svc)]>>,
             TaggedAddresses |-> <<>>,
             Locality |-> svc.Locality]
    IN  constructCatalogRegistrationPayload(proxyService, tm, clusterARN)

\* The port of the mesh gateway: the default, or the LAN port when one is given.
GatewayPort(gateway) ==
    IF gateway.LanAddress # <<>> /\ AddressToConsulType(gateway.LanAddress[1]).Port > 0
    THEN AddressToConsulType(gateway.LanAddress[1]).Port
    ELSE DefaultGatewayPort

\* The LAN entry of taggedAddresses, as a map with at most that key.
LanTagged(gateway) ==
    IF gateway.LanAddress # <<>> /\ AddressToConsulType(gateway.LanAddress[1]).Address # ""
    THEN "lan" :> AddressToConsulType(gateway.LanAddress[1])
    ELSE <<>>

WanTagged_Always(gateway) ==
    IF gateway.WanAddress # <<>>
    THEN "wan" :>
            [AddressToConsulType(gateway.WanAddress[1]) EXCEPT
                !.Port = IF @ = 0 THEN GatewayPort(gateway) ELSE @]
    ELSE <<>>

\* The WAN entry of taggedAddresses, as a map with at most that key.
WanTagged(gateway) ==
    IF gateway.WanAddress # <<>> /\ AddressToConsulType(gateway.WanAddress[1]).Address # ""
    THEN "wan" :>
            [AddressToConsulType(gateway.WanAddress[1]) EXCEPT
                !.Port = IF @ = 0 THEN GatewayPort(gateway) ELSE @]
    ELSE <<>>

GatewayAddress_NodeIP(gateway, tm) == tm.NodeIP

\* gatewaySvc.Address: the node IP unless a LAN host is given.
GatewayAddress(gateway, tm) ==
    IF gateway.LanAddress # <<>> /\ AddressToConsulType(gateway.LanAddress[1]).Address # ""
    THEN AddressToConsulType(gateway.LanAddress[1]).Address
    ELSE tm.NodeIP

constructGatewayProxyRegistration(c, tm, clusterARN) ==
    LET gateway     == c.Gateway[1]
        serviceName == constructServiceName(c, tm.Family)
        serviceID   == makeServiceID(serviceName, tm.TaskID)
        gatewaySvc  == [GatewayToConsulType(gateway) EXCEPT
                           !.ID = serviceID,
                           !.Service = serviceName,
                           !.Address = tm.NodeIP,
                           !.Meta = mergeMeta(TaskMetaTags(tm), gateway.Meta)]
        taggedAddresses == LanTagged(gateway) @@ WanTagged(gateway)
        meshSvc     == [gatewaySvc EXCEPT
                           !.Port = GatewayPort(gateway),
                           !.Address = GatewayAddress(gateway, tm),
                           !.TaggedAddresses =
                               IF DOMAIN taggedAddresses # {}
                               THEN <<taggedAddresses>> ELSE <<>>]
    IN  constructCatalogRegistrationPayload(
            IF gateway.Kind = "mesh-gateway" THEN meshSvc ELSE gatewaySvc,
            tm, clusterARN)

Construct_Both(c, tm, clusterARN, region) ==
    LET service == constructServiceRegistration(c, tm, clusterARN, region)
    IN  [service |-> <<service>>,
         proxy   |-> <<constructProxyRegistration(c, service, tm, clusterARN)>>]

\* The registrations realRun constructs; an absent registration is <<>>.
Construct(c, tm, clusterARN, region) ==
    IF IsGateway(c)
    THEN [service |-> <<>>,
          proxy   |-> <<constructGatewayProxyRegistration(c, tm, clusterARN)>>]
    ELSE LET service == constructServiceRegistration(c, tm, clusterARN, region)
         IN  [service |-> <<service>>,
              proxy   |-> <<constructProxyRegistration(c, service, tm, clusterARN)>>]

\* The registrations realRun constructs in a run: of the sections of the
\* configuration only whether there is a gateway varies between runs.
Registrations(cfg) ==
    LET tm == [Family |-> <<"W", "e", "b">>, TaskID |-> "abcdef",
               TaskARN |-> "arn:task/abcdef", NodeIP |-> "10.1.2.3",
               AvailabilityZone |-> "us-east-1a", ClusterARN |-> "arn:cluster"]
        sections ==
              [Service |-> [Name |-> "", port |-> 8080, tags |-> <<"t1">>, meta |-> <<>>],
               Proxy   |-> [upstreams |-> <<>>],
               Gateway |-> IF cfg.gateway
                           THEN <<[Kind |-> "mesh-gateway", Name |-> "", Meta |-> <<>>,
                                   LanAddress |-> <<>>, WanAddress |-> <<>>]>>
                           ELSE <<>>]
    IN  Construct(sections, tm, tm.ClusterARN, "us-east-1")

FirstRegistration_Always(service) == "RegisterService"

\* if serviceRegistration != nil
FirstRegistration(service) == IF service # <<>> THEN "RegisterService" ELSE "RegisterProxy"

\* setupConsulAPIClient and the construction of the registrations.
realRun_setupConsulAPIClient ==
    /\ rpc = "setupConsulAPIClient"
    /\ \/ /\ serviceRegistration' = Registrations(config).service
          /\ proxyRegistration' = Registrations(config).proxy
          /\ Proceed(FirstRegistration(Registrations(config).service))
       \/ /\ Fail(<<"constructing consul client from config">>)
          /\ UNCHANGED <<serviceRegistration, proxyRegistration>>
    /\ UNCHANGED <<args, config, watcher, ctx, defers, attempts, retryLog, catalog, files,
                   ui, exitCode>>
    /\ UNCHANGED <<ctlVars, listVars, buildVars, euid, runs, rpcCACertFile>>

Register_GiveUp(call, registration, next) ==
    /\ attempts' = [attempts EXCEPT ![call] = @ + 1]
    /\ \/ \E e \in RegisterErrors :
             /\ Len(retryLog) < MaxRetries
             /\ retryLog' = Append(retryLog, retryLogger(e, NextBackOff(1 * Second)))
             /\ Fail(e)
             /\ UNCHANGED <<catalog, steps>>
       \/ /\ catalog' = catalog \o registration
          /\ Proceed(next)
          /\ UNCHANGED retryLog

\* One call of the operation backoff.RetryNotify retries: an error is handed
\* to retryLogger with the next wait and the call is made again.
Register(call, registration, next) ==
    /\ attempts' = [attempts EXCEPT ![call] = @ + 1]
    /\ \/ \E e \in RegisterErrors :
             /\ Len(retryLog) < MaxRetries
             /\ retryLog' = Append(retryLog, retryLogger(e, NextBackOff(1 * Second)))
             /\ UNCHANGED <<catalog, rpc, steps, rerr>>
       \/ /\ catalog' = catalog \o registration
          /\ Proceed(next)
          /\ UNCHANGED retryLog

realRun_RegisterService ==
    /\ rpc = "RegisterService"
    /\ Register("service", serviceRegistration, "RegisterProxy")
    /\ UNCHANGED <<args, config, watcher, ctx, defers, files,
                   serviceRegistration, proxyRegistration, ui, exitCode>>
    /\ UNCHANGED <<ctlVars, listVars, buildVars, euid, runs, rpcCACertFile>>

realRun_RegisterProxy ==
    /\ rpc = "RegisterProxy"
    /\ Register("proxy", proxyRegistration, "copyECSBinaryToSharedVolume")
    /\ UNCHANGED <<args, config, watcher, ctx, defers, files,
                   serviceRegistration, proxyRegistration, ui, exitCode>>
    /\ UNCHANGED <<ctlVars, listVars, buildVars, euid, runs, rpcCACertFile>>

\* os.WriteFile opens the file with O_WRONLY|O_CREATE|O_TRUNC: a file that
\* exists is opened only when its mode lets the user write; root always may.
\* Of the two modes the command writes with, 0755 lets the owner write and
\* 0444 does not.
Writable(fs, name, uid) ==
    IF name \notin DOMAIN fs \/ uid = "root" THEN TRUE ELSE fs[name].mode = "0755"

WriteFile_OwnerWritable(fs, name, mode) == (name :> [mode |-> "0755"]) @@ fs

\* os.WriteFile(name, data, mode) truncates or creates the file; the mode is
\* applied only to a file it creates.
WriteFile(fs, name, mode) ==
    (name :> [mode |-> IF name \in DOMAIN fs THEN fs[name].mode ELSE mode]) @@ fs

\* The error of a failed os.WriteFile.
WriteError(fs, name, uid, msg) ==
    IF Writable(fs, name, uid) THEN <<msg>> ELSE <<msg, "permission denied">>

realRun_copyECSBinaryToSharedVolume ==
    /\ rpc = "copyECSBinaryToSharedVolume"
    /\ \/ /\ Writable(files, "consul-ecs", euid)
          /\ files' = WriteFile(files, "consul-ecs", "0755")
          /\ Proceed("writeRPCCACertToSharedVolume")
       \/ /\ Fail(WriteError(files, "consul-ecs", euid, "copy binary"))
          /\ UNCHANGED files
    /\ UNCHANGED <<args, config, watcher, ctx, defers, attempts, retryLog, catalog,
                   serviceRegistration, proxyRegistration, ui, exitCode>>
    /\ UNCHANGED <<ctlVars, listVars, buildVars, euid, runs, rpcCACertFile>>

RPCCACertFile_Configured(cfg) ==
    IF cfg.tls = "off" THEN "" ELSE "/certs/ca.pem"

\* The path writeRPCCACertToSharedVolume returns with a nil error: "" with
\* TLS disabled, tlsSettings.CaCertFile with no PEM in the environment, and
\* path.Join(c.config.BootstrapDir, caCertFileName) otherwise.
RPCCACertFile(cfg) ==
    IF cfg.tls = "off" THEN ""
    ELSE IF cfg.tls = "file" THEN "/certs/ca.pem"
    ELSE cfg.bootstrapDir \o "/" \o caCertFileName

realRun_writeRPCCACertToSharedVolume ==
    /\ rpc = "writeRPCCACertToSharedVolume"
    /\ IF config.tls # "pem"
       THEN /\ Proceed("generateAndWriteDataplaneConfig")
            /\ rpcCACertFile' = <<RPCCACertFile(config)>>
            /\ UNCHANGED files
       ELSE \/ /\ Writable(files, caCertFileName, euid)
               /\ files' = WriteFile(files, caCertFileName, "0444")
               /\ rpcCACertFile' = <<RPCCACertFile(config)>>
               /\ Proceed("generateAndWriteDataplaneConfig")
            \/ /\ Fail(WriteError(files, caCertFileName, euid, "write CA cert"))
               /\ rpcCACertFile' = <<"">>
               /\ UNCHANGED files
    /\ UNCHANGED <<args, config, watcher, ctx, defers, attempts, retryLog, catalog,
                   serviceRegistration, proxyRegistration, ui, exitCode>>
    /\ UNCHANGED <<ctlVars, listVars, buildVars, euid, runs>>

realRun_generateAndWriteDataplaneConfig ==
    /\ rpc = "generateAndWriteDataplaneConfig"
    /\ \/ /\ Writable(files, dataplaneConfigFileName, euid)
          /\ files' = WriteFile(files, dataplaneConfigFileName, "0444")
          /\ Proceed("return")
       \/ /\ Fail(WriteError(files, dataplaneConfigFileName, euid, "write dataplane config"))
          /\ UNCHANGED files
    /\ UNCHANGED <<args, config, watcher, ctx, defers, attempts, retryLog, catalog,
                   serviceRegistration, proxyRegistration, ui, exitCode>>
    /\ UNCHANGED <<ctlVars, listVars, buildVars, euid, runs, rpcCACertFile>>

\* realRun returns: its deferred calls run.
realRun_Return ==
    /\ rpc = "return"
    /\ watcher' = IF \E i \in 1..Len(defers) : defers[i] = "watcher.Stop"
                  THEN "stopped" ELSE watcher
    /\ ctx' = IF \E i \in 1..Len(defers) : defers[i] = "cancelFunc"
              THEN "cancelled" ELSE ctx
    /\ defers' = <<>>
    /\ rpc' = "exit"
    /\ UNCHANGED <<args, config, steps, attempts, retryLog, catalog, files, rerr,
                   serviceRegistration, proxyRegistration, ui, exitCode>>
    /\ UNCHANGED <<ctlVars, listVars, buildVars, euid, runs, rpcCACertFile>>

ExitCode_Zero(e) == 0

\* if err != nil { return 1 }; return 0
ExitCode(e) == IF e # nil THEN 1 ELSE 0

\* Run after realRun has returned.
Run_Return ==
    /\ rpc = "exit"
    /\ ui' = IF rerr # nil THEN Append(ui, rerr) ELSE ui
    /\ exitCode' = <<ExitCode(rerr)>>
    /\ rpc' = "exited"
    /\ UNCHANGED <<args, config, watcher, ctx, defers, steps, attempts, retryLog, catalog,
                   files, rerr, serviceRegistration, proxyRegistration>>
    /\ UNCHANGED <<ctlVars, listVars, buildVars, euid, runs, rpcCACertFile>>

NextRun ==
    \/ Run_FromEnv
    \/ realRun_ECSTaskMetadata
    \/ realRun_ClusterARN
    \/ realRun_ConsulServerConnMgrConfig
    \/ realRun_NewWatcher
    \/ realRun_State
    \/ realRun_setupConsulAPIClient
    \/ realRun_RegisterService
    \/ realRun_RegisterProxy
    \/ realRun_copyECSBinaryToSharedVolume
    \/ realRun_writeRPCCACertToSharedVolume
    \/ realRun_generateAndWriteDataplaneConfig
    \/ realRun_Return
    \/ Run_Return

SpecRun == InitRun /\ [][NextRun]_vars

\* The steps of a successful run, in order: START (metadata), DISCOVER_ENDPOINT,
\* BUILD_PAYLOAD, REGISTER_SERVICE for a plain workload, REGISTER_PROXY and the
\* three writes of WRITE_ARTIFACTS.
RunOrder(cfg) ==
    <<"ECSTaskMetadata", "ClusterARN", "ConsulServerConnMgrConfig",
      "NewWatcher", "State", "setupConsulAPIClient">>
    \o (IF cfg.gateway THEN <<>> ELSE <<"RegisterService">>)
    \o <<"RegisterProxy",
         "copyECSBinaryToSharedVolume", "writeRPCCACertToSharedVolume",
         "generateAndWriteDataplaneConfig">>

IsPrefix(s, t) == Len(s) <= Len(t) /\ SubSeq(t, 1, Len(s)) = s

Completed(step) == \E i \in 1..Len(steps) : steps[i] = step

\* The run has ended: realRun has returned or Run has.
Ended == rpc \in {"exit", "exited"}

\* C17: the steps complete in the one order of RunOrder, one at a time and only
\* the step in progress; a failed step ends the run with no later step
\* executed, no registration made and no file written after it; a file is on
\* the shared volume only after the proxy registration succeeded, the
\* self-copy before the CA certificate and both before the dataplane
\* configuration.
C17_LinearRun ==
    [][/\ steps' = steps \/ (steps' = Append(steps, rpc) /\ rerr' = nil)
       /\ IsPrefix(steps', RunOrder(config))
       /\ (Len(steps) < Len(RunOrder(config)) /\ rpc \notin {"Run", "return", "exit", "exited"})
             => rpc = RunOrder(config)[Len(steps) + 1]
       /\ rerr' # nil => /\ rpc' \in {"return", "exit", "exited"}
                         /\ steps' = steps
                         /\ catalog' = catalog
                         /\ files' = files
       /\ DOMAIN files' # {} => /\ Completed("RegisterProxy")
                                /\ catalog' # <<>>
                                /\ "consul-ecs" \in DOMAIN files'
       /\ dataplaneConfigFileName \in DOMAIN files'
             => Completed("writeRPCCACertToSharedVolume")]_vars

C17_Witness ==
    /\ rpc = "exited" /\ rerr = <<"write CA cert">>
    /\ steps = SubSeq(RunOrder(config), 1, 9)
    /\ DOMAIN files = {"consul-ecs"}
    /\ Len(catalog) = 2

\* C18: once the discovery watcher was started, a run that has ended, with or
\* without error, has stopped the watcher and cancelled its context; no ended
\* run leaves the watcher running.
C18_DiscoveryTornDown ==
    Ended => /\ watcher # "running"
             /\ Completed("NewWatcher") => watcher = "stopped" /\ ctx = "cancelled"

C18_Witness ==
    /\ rpc = "exited" /\ watcher = "stopped" /\ ctx = "cancelled"
    /\ rerr = <<"unable to fetch consul server watcher state">>

\* The registration call has succeeded.
Registered(call) ==
    Completed(IF call = "service" THEN "RegisterService" ELSE "RegisterProxy")

\* The registration the call registers.
RegistrationOf(call) == IF call = "service" THEN serviceRegistration ELSE proxyRegistration

\* C19: a registration that fails is called again and never ends the run; every
\* failed call has logged one retry event with the failure and the wait "1s",
\* so a call that succeeds at its k+1st attempt has logged k events, and it
\* has put its entry into the catalog once and the run has moved on.
C19_RetryThenSucceed ==
    rpc # "off" =>
        /\ rerr \notin RegisterErrors
        /\ Len(retryLog) = (attempts["service"] - (IF Registered("service") THEN 1 ELSE 0))
                         + (attempts["proxy"] - (IF Registered("proxy") THEN 1 ELSE 0))
        /\ \A i \in 1..Len(retryLog) :
              retryLog[i].msg \in RegisterErrors /\ retryLog[i].retry = "1s"
        /\ attempts["proxy"] = 0 =>
              Len(retryLog) = attempts["service"] - (IF Registered("service") THEN 1 ELSE 0)
        /\ \A call \in {"service", "proxy"} :
              Registered(call)
                 => /\ attempts[call] >= 1
                    /\ Cardinality({ i \in 1..Len(catalog) : <<catalog[i]>> = RegistrationOf(call) }) = 1
                    /\ rpc \notin {"RegisterService", IF call = "proxy" THEN "RegisterProxy" ELSE "RegisterService"}

C19_Witness ==
    /\ Registered("proxy") /\ attempts["proxy"] = 3 /\ attempts["service"] = 1
    /\ Len(retryLog) = 2
    /\ rpc = "copyECSBinaryToSharedVolume"

\* C20: Run returns 0 or 1; it returns 0 exactly when it was given no argument,
\* the configuration was valid and every step of the run completed, and 1 in
\* every other case.
C20_ExitCode ==
    exitCode # <<>> =>
        /\ exitCode[1] \in {0, 1}
        /\ exitCode[1] = 0 <=> /\ args = <<>>
                               /\ config.valid
                               /\ steps = RunOrder(config)
                               /\ rerr = nil
        /\ exitCode[1] = 1 => ui # <<>>

C20_Witness ==
    /\ exitCode = <<0>> /\ steps = RunOrder(config)
    /\ config.tls = "pem"
    /\ DOMAIN files = {"consul-ecs", caCertFileName, dataplaneConfigFileName}

\* Run was given arguments or a configuration that does not load or lacks the
\* bootstrap directory.
ConfigurationError == args # <<>> \/ ~config.valid \/ config.bootstrapDir = ""

\* No call of realRun was made and nothing was written or registered.
NothingDone ==
    /\ ctx = "none" /\ watcher = "none" /\ defers = <<>>
    /\ steps = <<>> /\ rerr = nil
    /\ \A call \in DOMAIN attempts : attempts[call] = 0
    /\ catalog = <<>> /\ files = <<>> /\ retryLog = <<>>

\* C21: with a configuration error Run never enters realRun, so it makes no
\* metadata, discovery or catalog call and writes no file, and it returns 1
\* after one message on the error stream.
C21_ConfigErrorBeforeAnyCall ==
    (rpc # "off" /\ ConfigurationError)
        => /\ NothingDone
           /\ rpc \in {"Run", "exited"}
           /\ rpc = "exited" => exitCode = <<1>> /\ Len(ui) = 1

C21_Witness ==
    /\ rpc = "exited" /\ exitCode = <<1>> /\ NothingDone
    /\ args = <<>> /\ config.valid /\ config.bootstrapDir = ""
    /\ ui = <<<<"invalid config">>>>

----------------------------------------------------------------------------
(* Run started again in the same instance: same arguments, configuration   *)
(* and user, the shared volume and the catalog as the last run left them.  *)

\* C31: the CA certificate file is on the shared volume only with TLS and a
\* PEM in the environment, and then from the CA step on; once the CA step has
\* succeeded the CA path for the dataplane configuration is the file on the
\* shared volume in that case, the configured CA file with TLS and no PEM, and
\* empty without TLS; when the write of the certificate fails, the run
\* returns that error, writes no dataplane configuration and exits with 1.
C31_CACertMaterialization ==
    /\ caCertFileName \in DOMAIN files => config.tls = "pem"
    /\ Completed("writeRPCCACertToSharedVolume") =>
          /\ config.tls = "pem" => caCertFileName \in DOMAIN files
          /\ rpcCACertFile =
                <<CASE config.tls = "pem"  -> "/consul/consul-grpc-ca-cert.pem"
                    [] config.tls = "file" -> "/certs/ca.pem"
                    [] config.tls = "off"  -> "">>
    /\ Contains(rerr, <<"write CA cert">>) =>
          /\ caCertFileName \notin DOMAIN files
          /\ dataplaneConfigFileName \notin DOMAIN files
          /\ ~Completed("generateAndWriteDataplaneConfig")
          /\ exitCode \in {<<>>, <<1>>}

C31_Witness ==
    /\ config.tls = "pem"
    /\ exitCode = <<0>>
    /\ caCertFileName \in DOMAIN files
    /\ dataplaneConfigFileName \in DOMAIN files
    /\ rpcCACertFile = <<"/consul/consul-grpc-ca-cert.pem">>

\* Largest number of times Run is started in one instance.
MaxRuns == 2

Rerun ==
    /\ rpc = "exited"
    /\ runs < MaxRuns
    /\ runs' = runs + 1
    /\ rpc' = "Run"
    /\ watcher' = "none"
    /\ ctx' = "none"
    /\ defers' = <<>>
    /\ steps' = <<>>
    /\ attempts' = [c \in {"service", "proxy"} |-> 0]
    /\ retryLog' = <<>>
    /\ rerr' = nil
    /\ serviceRegistration' = <<>>
    /\ proxyRegistration' = <<>>
    /\ ui' = <<>>
    /\ exitCode' = <<>>
    /\ rpcCACertFile' = <<>>
    /\ UNCHANGED <<args, config, catalog, files, euid>>
    /\ UNCHANGED <<ctlVars, listVars, buildVars>>

NextRerun ==
    \/ Run_FromEnv
    \/ realRun_ECSTaskMetadata
    \/ realRun_ClusterARN
    \/ realRun_ConsulServerConnMgrConfig
    \/ realRun_NewWatcher
    \/ realRun_State
    \/ realRun_setupConsulAPIClient
    \/ realRun_RegisterService
    \/ realRun_RegisterProxy
    \/ realRun_copyECSBinaryToSharedVolume
    \/ realRun_writeRPCCACertToSharedVolume
    \/ realRun_generateAndWriteDataplaneConfig
    \/ realRun_Return
    \/ Run_Return
    \/ Rerun

SpecRerun == InitRun /\ [][NextRerun]_vars

\* The entries of the catalog after the accepted registrations of cat:
\* a registration replaces the entry with the same ID.
CatalogEntries(cat) ==
    [id \in { cat[i].Service.ID : i \in 1..Len(cat) } |->
        cat[CHOOSE i \in 1..Len(cat) :
               /\ cat[i].Service.ID = id
               /\ \A j \in (i + 1)..Len(cat) : cat[j].Service.ID # id]]

\* The shared volume and the catalog after one successful run.
ArtifactsOfOneRun(cfg) ==
    [name \in {"consul-ecs", dataplaneConfigFileName}
              \cup (IF cfg.tls = "pem" THEN {caCertFileName} ELSE {}) |->
        [mode |-> IF name = "consul-ecs" THEN "0755" ELSE "0444"]]

EntriesOfOneRun(cfg) ==
    CatalogEntries(Registrations(cfg).service \o Registrations(cfg).proxy)

\* C22: a run started again on the shared volume and catalog of an earlier run
\* fails at no write because of the files that are already there, and when it
\* returns 0 the volume and the catalog are as after one successful run.
C22_RerunSafe ==
    runs > 1 =>
        /\ ~Contains(rerr, <<"permission denied">>)
        /\ exitCode = <<0>> => /\ files = ArtifactsOfOneRun(config)
                               /\ CatalogEntries(catalog) = EntriesOfOneRun(config)

\* C23: for a gateway configuration only the gateway entry is registered, no
\* service registration is attempted, and a run that returns 0 registered
\* exactly that one entry; for a plain workload the service entry is registered
\* first, the proxy registration is attempted only after the service entry was
\* accepted, and a run that returns 0 registered exactly the two entries.
C23_PayloadShapeSelectsRegistrations ==
    LET kinds == [i \in 1..Len(catalog) |-> catalog[i].Service.Kind]
    IN  IF config.gateway
        THEN /\ kinds \in {<<>>, <<"mesh-gateway">>}
             /\ attempts["service"] = 0
             /\ exitCode = <<0>> => kinds = <<"mesh-gateway">>
        ELSE /\ kinds \in {<<>>, <<"">>, <<"", "connect-proxy">>}
             /\ attempts["proxy"] > 0 => Len(catalog) >= 1
             /\ exitCode = <<0>> => kinds = <<"", "connect-proxy">>

C23_Witness ==
    /\ config.gateway
    /\ exitCode = <<0>>
    /\ Len(catalog) = 1
    /\ catalog[1].Service.Kind = "mesh-gateway"
    /\ attempts["proxy"] > 0

\* A run whose process keeps running: the step it is at is eventually taken.
\* The control plane refuses a registration at most MaxRetries times in a run.
SpecRunLive == SpecRun /\ WF_vars(NextRun)

\* C34: a run in which the control plane refuses the registrations only
\* finitely often ends, with exit code 0 or 1; and a registration call that
\* fails leaves the run in its registration step: no error is returned, no
\* step completes, nothing is registered and no file is written.
C34_RunLiveness ==
    /\ <>(rpc = "exited" /\ exitCode \in {<<0>>, <<1>>})
    /\ [][Len(retryLog') > Len(retryLog) =>
             /\ rpc \in {"RegisterService", "RegisterProxy"}
             /\ rpc' = rpc
             /\ UNCHANGED <<steps, rerr, catalog, files, exitCode>>]_vars

C34_Witness ==
    /\ rpc = "exited"
    /\ exitCode = <<0>>
    /\ Len(retryLog) = MaxRetries
    /\ attempts["service"] = MaxRetries + 1
    /\ dataplaneConfigFileName \in DOMAIN files

\* C32: in every run and for every configuration, a file on the shared volume
\* has the mode of its artifact: 0755 for the copy of the executable, 0444 for
\* the dataplane configuration and for the CA certificate.
C32_FixedFileModes ==
    \A name \in DOMAIN files :
        /\ name \in {"consul-ecs", dataplaneConfigFileName, caCertFileName}
        /\ files[name].mode = IF name = "consul-ecs" THEN "0755" ELSE "0444"

C32_Witness ==
    /\ runs = 2
    /\ exitCode = <<0>>
    /\ DOMAIN files = {"consul-ecs", dataplaneConfigFileName, caCertFileName}
    /\ files["consul-ecs"].mode = "0755"
    /\ files[caCertFileName].mode = "0444"

\* ---- the registrations as functions of the configuration and the task ----

MaxChecks == 2

MaxContainers == 2

SyncedCheck(serviceID, containerName) ==
    [CheckID |-> serviceID \o "-" \o containerName \o "-consul-ecs",
     Name |-> "consul ecs synced", TTL |-> "100000h"]

constructChecks_Reversed(serviceID, checks, healthSyncContainers) ==
    IF Len(checks) > 0 /\ Len(healthSyncContainers) > 0
    THEN [checks |-> <<>>,
          err |-> <<"only one of mesh.checks or mesh.healthSyncContainers should be set">>]
    ELSE [checks |-> checks \o
                     [i \in 1..Len(healthSyncContainers) |->
                        SyncedCheck(serviceID,
                            healthSyncContainers[Len(healthSyncContainers) + 1 - i])],
          err |-> nil]

constructChecks(serviceID, checks, healthSyncContainers) ==
    IF Len(checks) > 0 /\ Len(healthSyncContainers) > 0
    THEN [checks |-> <<>>,
          err |-> <<"only one of mesh.checks or mesh.healthSyncContainers should be set">>]
    ELSE IF Len(healthSyncContainers) > 0
    THEN [checks |-> checks \o
                     [i \in 1..Len(healthSyncContainers) |->
                        SyncedCheck(serviceID, healthSyncContainers[i])],
          err |-> nil]
    ELSE [checks |-> checks, err |-> nil]

MaxEnum == 3

\* Schema.EnumStr; a value of Enum is a pointer: <<>> is nil. The back quote
\* the code puts around a value is written ' here.
EnumStr(s) ==
    LET n == Len(s.Enum)
        result[i \in 0..n] ==
            IF i = 0 THEN ""
            ELSE result[i - 1]
                 \o (IF n > 2 /\ i > 1
                     THEN ", " \o (IF i = n THEN "or" ELSE "")
                     ELSE "")
                 \o (IF s.Enum[i] = <<>> THEN "'null'" ELSE "'" \o s.Enum[i][1] \o "'")
    IN  IF result[n] # "" THEN "Must be one of " \o result[n] \o "." ELSE result[n]

\* The inputs: the service, proxy and gateway sections of the configuration,
\* the task metadata and the region for the registrations; a service id, up
\* to MaxChecks configured checks and up to MaxContainers containers for
\* constructChecks; a schema with up to MaxEnum enum values for EnumStr.
InitBuild ==
    /\ CtlOff
    /\ ListOff
    /\ LET Optional(S) == {<<>>} \cup { <<x>> : x \in S }
           SeqsUpTo(S, n) == UNION { [1..k -> S] : k \in 0..n }
           Gateways ==
               [Kind : {"", "mesh-gateway", "terminating-gateway"}, Name : {"", "gw"},
                Meta : {<<>>},
                LanAddress : Optional([address : {"", "10.0.0.5"}, port : {0, 9000}]),
                WanAddress : Optional([address : {"", "54.0.0.7"}, port : {0, 9443}])]
           ConfiguredChecks ==
               { [CheckID |-> id, Name |-> "configured", TTL |-> "10s"] : id \in {"c1", "c2"} }
       IN  \/ /\ rpc = "construct"
              /\ config \in
                    [Service : [Name : {"", "svc"}, port : {8080}, tags : {<<"t1">>},
                                meta : {<<>>, "k" :> "v", "source" :> "mine"}],
                     Proxy   : [upstreams : {<<>>}],
                     Gateway : Optional(Gateways)]
              /\ taskMeta \in
                    [Family : {<<"W", "e", "b">>, <<"w", "e", "b">>}, TaskID : {"abcdef"},
                     TaskARN : {"arn:task/abcdef"}, NodeIP : {"10.1.2.3"},
                     AvailabilityZone : {"", "us-east-1a"}, ClusterARN : {"arn:cluster"}]
              /\ awsRegion \in {"", "us-east-1"}
              /\ checkArgs = <<>>
              /\ schema = <<>>
           \/ /\ rpc = "constructChecks"
              /\ config = <<>>
              /\ taskMeta = <<>>
              /\ awsRegion = ""
              /\ checkArgs \in
                    [serviceID : {"svc-abcdef"},
                     checks : SeqsUpTo(ConfiguredChecks, MaxChecks),
                     healthSyncContainers : SeqsUpTo({"app", "db"}, MaxContainers)]
              /\ schema = <<>>
           \/ /\ rpc = "EnumStr"
              /\ config = <<>>
              /\ taskMeta = <<>>
              /\ awsRegion = ""
              /\ checkArgs = <<>>
              /\ schema \in
                    [Enum : SeqsUpTo(Optional({"local", "remote", "none"}), MaxEnum)]
    /\ checkRet = <<>>
    /\ enumStr = <<>>
    /\ args = <<>>
    /\ watcher = "none"
    /\ ctx = "none"
    /\ defers = <<>>
    /\ steps = <<>>
    /\ attempts = [c \in {"service", "proxy"} |-> 0]
    /\ retryLog = <<>>
    /\ catalog = <<>>
    /\ files = <<>>
    /\ rerr = nil
    /\ serviceRegistration = <<>>
    /\ proxyRegistration = <<>>
    /\ ui = <<>>
    /\ exitCode = <<>>
    /\ euid = "none"
    /\ runs = 0
    /\ rpcCACertFile = <<>>

\* realRun constructs the registrations.
realRun_Construct ==
    /\ rpc = "construct"
    /\ serviceRegistration' = Construct(config, taskMeta, taskMeta.ClusterARN, awsRegion).service
    /\ proxyRegistration' = Construct(config, taskMeta, taskMeta.ClusterARN, awsRegion).proxy
    /\ rpc' = "constructed"
    /\ UNCHANGED <<args, config, watcher, ctx, defers, steps, attempts, retryLog, catalog,
                   files, rerr, ui, exitCode, euid, runs, rpcCACertFile>>
    /\ UNCHANGED <<ctlVars, listVars, buildVars>>

realRun_constructChecks ==
    /\ rpc = "constructChecks"
    /\ checkRet' = <<constructChecks(checkArgs.serviceID, checkArgs.checks,
                                     checkArgs.healthSyncContainers)>>
    /\ rpc' = "checked"
    /\ UNCHANGED <<args, config, watcher, ctx, defers, steps, attempts, retryLog, catalog,
                   files, rerr, serviceRegistration, proxyRegistration, ui, exitCode,
                   euid, runs, rpcCACertFile>>
    /\ UNCHANGED <<taskMeta, awsRegion, checkArgs, schema, enumStr>>
    /\ UNCHANGED <<ctlVars, listVars>>

Schema_EnumStr ==
    /\ rpc = "EnumStr"
    /\ enumStr' = <<EnumStr(schema)>>
    /\ rpc' = "returned"
    /\ UNCHANGED <<args, config, watcher, ctx, defers, steps, attempts, retryLog, catalog,
                   files, rerr, serviceRegistration, proxyRegistration, ui, exitCode,
                   euid, runs, rpcCACertFile>>
    /\ UNCHANGED <<taskMeta, awsRegion, checkArgs, checkRet, schema>>
    /\ UNCHANGED <<ctlVars, listVars>>

NextBuild ==
    \/ realRun_Construct
    \/ realRun_constructChecks
    \/ Schema_EnumStr

SpecBuild == InitBuild /\ [][NextBuild]_vars

\* The registrations that were constructed, in the order of their registration.
Built == serviceRegistration \o proxyRegistration

Constructed == rpc = "constructed"

\* A mesh gateway was constructed.
MeshGatewayConstructed ==
    /\ Constructed
    /\ IsGateway(config)
    /\ config.Gateway[1].Kind = "mesh-gateway"

LanHostGiven == config.Gateway[1].LanAddress # <<>> /\ config.Gateway[1].LanAddress[1].address # ""

LanPortGiven == config.Gateway[1].LanAddress # <<>> /\ config.Gateway[1].LanAddress[1].port > 0

WanHostGiven == config.Gateway[1].WanAddress # <<>> /\ config.Gateway[1].WanAddress[1].address # ""

\* The service of the gateway entry.
GatewaySvc == proxyRegistration[1].Service

\* C24: the entry of a mesh gateway whose LAN address has a host and a port
\* > 0 and which has no WAN address has the LAN host as service address, the
\* LAN port as port and exactly the LAN tagged address; with no port
\* configured the port is the default gateway port.
C24_MeshGatewayLanAddress ==
    MeshGatewayConstructed =>
        /\ (LanHostGiven /\ LanPortGiven /\ config.Gateway[1].WanAddress = <<>>) =>
              /\ GatewaySvc.Address = config.Gateway[1].LanAddress[1].address
              /\ GatewaySvc.Port = config.Gateway[1].LanAddress[1].port
              /\ GatewaySvc.TaggedAddresses =
                    <<"lan" :> [Address |-> config.Gateway[1].LanAddress[1].address,
                                Port    |-> config.Gateway[1].LanAddress[1].port]>>
        /\ ~LanPortGiven => GatewaySvc.Port = DefaultGatewayPort

C24_Witness ==
    /\ MeshGatewayConstructed
    /\ LanHostGiven
    /\ LanPortGiven
    /\ config.Gateway[1].WanAddress = <<>>
    /\ GatewaySvc.Address = "10.0.0.5"
    /\ GatewaySvc.Address # taskMeta.NodeIP
    /\ GatewaySvc.Port = 9000

\* The tagged address recorded under key, <<>> when there is none.
TaggedAddress(key) ==
    IF GatewaySvc.TaggedAddresses # <<>> /\ key \in DOMAIN GatewaySvc.TaggedAddresses[1]
    THEN <<GatewaySvc.TaggedAddresses[1][key]>>
    ELSE <<>>

\* C25: the entry of a mesh gateway has a WAN tagged address exactly when the
\* configured WAN host is non-empty; a WAN tagged address configured with
\* port 0 has the port of the gateway, which is the LAN port when one was
\* given and the default gateway port otherwise; with neither a LAN nor a WAN
\* host the entry has no tagged-address map.
C25_MeshGatewayWanAddress ==
    MeshGatewayConstructed =>
        /\ TaggedAddress("wan") # <<>> <=> WanHostGiven
        /\ GatewaySvc.Port = IF LanPortGiven THEN config.Gateway[1].LanAddress[1].port
                                             ELSE DefaultGatewayPort
        /\ WanHostGiven =>
              /\ TaggedAddress("wan")[1].Address = config.Gateway[1].WanAddress[1].address
              /\ TaggedAddress("wan")[1].Port =
                    IF config.Gateway[1].WanAddress[1].port = 0
                    THEN GatewaySvc.Port ELSE config.Gateway[1].WanAddress[1].port
        /\ (~LanHostGiven /\ ~WanHostGiven) => GatewaySvc.TaggedAddresses = <<>>

C25_Witness ==
    /\ MeshGatewayConstructed
    /\ WanHostGiven
    /\ config.Gateway[1].WanAddress[1].port = 0
    /\ LanPortGiven
    /\ TaggedAddress("wan") = <<[Address |-> "54.0.0.7", Port |-> 9000]>>

\* C26: every constructed entry has no locality when no region is known, and
\* otherwise either no locality or one with both a region and a zone.
C26_LocalityAllOrNothing ==
    Constructed =>
        \A i \in 1..Len(Built) :
            /\ awsRegion = "" => Built[i].Service.Locality = <<>>
            /\ Built[i].Service.Locality # <<>> =>
                  /\ Built[i].Service.Locality[1].Region # ""
                  /\ Built[i].Service.Locality[1].Zone # ""

\* C27: every entry constructed for one task names the cluster as its node
\* and has the node address of the task.
C27_SingleLogicalNode ==
    Constructed =>
        \A i \in 1..Len(Built) :
            /\ Built[i].Node = taskMeta.ClusterARN
            /\ Built[i].Address = taskMeta.NodeIP

C27_Witness ==
    /\ MeshGatewayConstructed
    /\ LanHostGiven
    /\ Built[1].Service.Address # Built[1].Address
    /\ Built[1].Address = taskMeta.NodeIP

\* C28: the proxy entry of a plain workload has the id, name and port of the
\* service entry as its destination, the id and name of the service followed
\* by -sidecar-proxy, and the meta and tags of the service.
C28_ProxyReferencesService ==
    (Constructed /\ ~IsGateway(config)) =>
        /\ proxyRegistration[1].Service.Proxy[1].DestinationServiceID =
              serviceRegistration[1].Service.ID
        /\ proxyRegistration[1].Service.Proxy[1].DestinationServiceName =
              serviceRegistration[1].Service.Service
        /\ proxyRegistration[1].Service.Proxy[1].LocalServicePort =
              serviceRegistration[1].Service.Port
        /\ proxyRegistration[1].Service.ID =
              serviceRegistration[1].Service.ID \o "-sidecar-proxy"
        /\ proxyRegistration[1].Service.Service =
              serviceRegistration[1].Service.Service \o "-sidecar-proxy"
        /\ proxyRegistration[1].Service.Meta = serviceRegistration[1].Service.Meta
        /\ proxyRegistration[1].Service.Tags = serviceRegistration[1].Service.Tags

C28_Witness ==
    /\ Constructed
    /\ ~IsGateway(config)
    /\ proxyRegistration[1].Service.ID = "svc-abcdef-sidecar-proxy"
    /\ proxyRegistration[1].Service.Proxy[1].LocalServicePort = 8080
    /\ proxyRegistration[1].Service.Port # 8080
    /\ "k" \in DOMAIN proxyRegistration[1].Service.Meta

\* C29: the name of the registered service (of the gateway, for a gateway) is
\* the configured name when there is one and the lower-cased family of the
\* task otherwise, and its id is the name, a dash and the task id.
C29_ServiceNameAndID ==
    Constructed =>
        LET configured == IF IsGateway(config) THEN config.Gateway[1].Name
                                               ELSE config.Service.Name
        IN  /\ Built[1].Service.Service = IF configured # "" THEN configured ELSE "web"
            /\ Built[1].Service.ID = Built[1].Service.Service \o "-" \o taskMeta.TaskID

C29_Witness ==
    /\ Constructed
    /\ ~IsGateway(config)
    /\ config.Service.Name = ""
    /\ taskMeta.Family = <<"W", "e", "b">>
    /\ Built[1].Service.ID = "web-abcdef"

\* C30: constructChecks returns an error exactly when there are both
\* configured checks and health-sync containers, and then no checks;
\* otherwise it returns the configured checks followed by one check per
\* container, in the order of the containers, with the id
\* <serviceID>-<container>-consul-ecs; with neither it returns no checks and
\* no error.
C30_constructChecks ==
    rpc = "checked" =>
        /\ checkRet[1].err # nil <=>
              (Len(checkArgs.checks) > 0 /\ Len(checkArgs.healthSyncContainers) > 0)
        /\ checkRet[1].err # nil => checkRet[1].checks = <<>>
        /\ checkRet[1].err = nil =>
              /\ Len(checkRet[1].checks) =
                    Len(checkArgs.checks) + Len(checkArgs.healthSyncContainers)
              /\ SubSeq(checkRet[1].checks, 1, Len(checkArgs.checks)) = checkArgs.checks
              /\ \A i \in 1..Len(checkArgs.healthSyncContainers) :
                    /\ checkRet[1].checks[Len(checkArgs.checks) + i].CheckID =
                          checkArgs.serviceID \o "-"
                              \o checkArgs.healthSyncContainers[i] \o "-consul-ecs"
                    /\ checkRet[1].checks[Len(checkArgs.checks) + i].TTL = "100000h"
        /\ (checkArgs.checks = <<>> /\ checkArgs.healthSyncContainers = <<>>) =>
              checkRet[1] = [checks |-> <<>>, err |-> nil]

C30_Witness ==
    /\ rpc = "checked"
    /\ checkArgs.checks = <<>>
    /\ checkArgs.healthSyncContainers = <<"app", "db">>
    /\ checkRet[1].err = nil
    /\ checkRet[1].checks[2].CheckID = "svc-abcdef-db-consul-ecs"

\* C38: the meta of the registered service (of the gateway, for a gateway) has
\* the keys task-id, task-arn and source and the keys of the configured meta;
\* a key of the configured meta has the configured value, also when it is one
\* of the three; and the others have the id of the task, its ARN and consul-ecs.
C38_MergedMeta ==
    Constructed =>
        LET configured == IF IsGateway(config) THEN config.Gateway[1].Meta
                                               ELSE config.Service.meta
            meta == Built[1].Service.Meta
        IN  /\ DOMAIN meta = {"task-id", "task-arn", "source"} \cup DOMAIN configured
            /\ \A k \in DOMAIN configured : meta[k] = configured[k]
            /\ "task-id" \notin DOMAIN configured => meta["task-id"] = taskMeta.TaskID
            /\ "task-arn" \notin DOMAIN configured => meta["task-arn"] = taskMeta.TaskARN
            /\ "source" \notin DOMAIN configured => meta["source"] = "consul-ecs"

C38_Witness ==
    /\ Constructed
    /\ ~IsGateway(config)
    /\ config.Service.meta = ("source" :> "mine")
    /\ Built[1].Service.Meta["source"] = "mine"
    /\ Built[1].Service.Meta["task-id"] = "abcdef"

\* C39: EnumStr returns "" for a schema without enum values; for one value
\* it returns Must be one of 'v'. with null for nil; for two values the two
\* quoted values do not follow each other directly; for three and more
\* the values are separated by a comma and a space and the last one follows
\* the word or and a space: Must be one of 'local', 'remote', or 'none'.
C39_EnumStr ==
    rpc = "returned" =>
        LET n == Len(schema.Enum)
            q(i) == IF schema.Enum[i] = <<>> THEN "'null'"
                    ELSE "'" \o schema.Enum[i][1] \o "'"
        IN  /\ n = 0 => enumStr[1] = ""
            /\ n = 1 => enumStr[1] = "Must be one of " \o q(1) \o "."
            /\ n = 2 => enumStr[1] # "Must be one of " \o q(1) \o q(2) \o "."
            /\ n >= 3 =>
                  LET list[i \in 1..n] ==
                          IF i = 1 THEN q(1)
                          ELSE list[i - 1] \o (IF i = n THEN ", or " ELSE ", ") \o q(i)
                  IN  enumStr[1] = "Must be one of " \o list[n] \o "."

====
